---- MODULE Spec2Model ----
(***************************************************************************)
(* State-machine model of the whereismytime-mobile core services:          *)
(*   EventsService / EventDurationService   (src/unnamed/part_021, _020)   *)
(*   EventCategorizationService             (src/src/services/events)      *)
(*   CategoryService                        (src/unnamed/part_022)         *)
(*   CalendarSyncService                    (src/src/services/calendar)    *)
(* The local SQLite store is the pair of tables `events` / `categories`    *)
(* (plus `calendars` for the sync service).  Timestamps are counted in     *)
(* ticks of 1/TicksPerMinute minute, event ids are numbers whose order is  *)
(* the store's text order, titles and rule contents are sequences of       *)
(* character codes.                                                        *)
(***************************************************************************)
EXTENDS Integers, Sequences, FiniteSets, TLC

VARIABLES events, categories, catCache, calendars, lastOp

vars == <<events, categories, catCache, calendars, lastOp>>

(***************************************************************************)
(* Bounds of the model                                                     *)
(***************************************************************************)
\* stored events are numbered 1..MaxEvents
MaxEvents == 3
\* time resolution: ticks per minute (2 = half-minute timestamps)
TicksPerMinute == 2
\* page size handed to EventsService by _fetch_all_events (500 in the code,
\* scaled down so that a store of MaxEvents events spans several pages)
PageSize == 2

\* SQL NULL / JS null / undefined
NULL == "null"
\* a null timestamp column
NoTime == -1
\* EventCategorizationService.categories before the first load (null)
NoCache == [loaded |-> FALSE, list |-> <<>>]

\* _pad_date_range adds 60 minutes on both sides
PadMinutes == 60
PadTicks == PadMinutes * TicksPerMinute

\* The instants used for event starts/ends and for recalculation windows:
\* one instant far (more than the padding) before the others, then a
\* whole-minute instant, an instant 1.5 minutes later and one 4 minutes later.
WindowBase == PadTicks + 3 * TicksPerMinute
TimePoints == {0, WindowBase, WindowBase + TicksPerMinute + 1, WindowBase + 4 * TicksPerMinute}

(***************************************************************************)
(* Generic helpers                                                         *)
(***************************************************************************)
Range(s) == {s[i] : i \in DOMAIN s}

\* F(v) with v evaluated once, before F is applied
With(v, F(_)) == CHOOSE y \in {F(x) : x \in {v}} : TRUE

RECURSIVE SumOver(_, _)
SumOver(S, f) ==
  IF S = {} THEN 0
  ELSE With(CHOOSE y \in S : TRUE,
            LAMBDA x : With(S \ {x}, LAMBDA rest : f[x] + SumOver(rest, f)))

RECURSIVE SortedTimes(_)
\* ascending, duplicate-free sequence of a set of timestamps
SortedTimes(S) ==
  IF S = {} THEN <<>>
  ELSE With(CHOOSE x \in S : \A y \in S : x <= y,
            LAMBDA m : With(S \ {m}, LAMBDA rest : <<m>> \o SortedTimes(rest)))

(***************************************************************************)
(* EventsService.getEventsPaginated                                        *)
(***************************************************************************)
\* (start, id) order of the ORDER BY clause, ascending
EventBefore(evs, a, b) ==
  \/ evs[a].start < evs[b].start
  \/ evs[a].start = evs[b].start /\ a < b

RECURSIVE OrderedAsc(_, _)
OrderedAsc(evs, S) ==
  IF S = {} THEN <<>>
  ELSE With(CHOOSE x \in S : \A y \in S \ {x} : EventBefore(evs, x, y),
            LAMBDA m : With(S \ {m}, LAMBDA rest : <<m>> \o OrderedAsc(evs, rest)))

Reverse(s) == [i \in 1..Len(s) |-> s[Len(s) + 1 - i]]

NoCursor == [start |-> NoTime, id |-> 0]

\* mutant of PageCandidates: the cursor condition compares the start only
PageCandidatesStartOnly(evs, cursor, direction, referenceDate) ==
  {id \in DOMAIN evs :
     /\ evs[id].start # NoTime
     /\ IF direction = "future"
        THEN IF cursor # NoCursor
             THEN evs[id].start > cursor.start
             ELSE evs[id].start > referenceDate
        ELSE IF cursor # NoCursor
             THEN evs[id].start < cursor.start
             ELSE evs[id].start < referenceDate}

\* rows selected by the WHERE clause (a NULL start satisfies no comparison)
PageCandidates(evs, cursor, direction, referenceDate) ==
  {id \in DOMAIN evs :
     /\ evs[id].start # NoTime
     /\ IF direction = "future"
        THEN IF cursor # NoCursor
             THEN \/ evs[id].start > cursor.start
                  \/ evs[id].start = cursor.start /\ id > cursor.id
             ELSE evs[id].start > referenceDate
        ELSE IF cursor # NoCursor
             THEN \/ evs[id].start < cursor.start
                  \/ evs[id].start = cursor.start /\ id < cursor.id
             ELSE evs[id].start < referenceDate}

getEventsPaginated(evs, pageSize, cursor, direction, referenceDate) ==
  With(PageCandidates(evs, cursor, direction, referenceDate), LAMBDA cand :
  With(OrderedAsc(evs, cand), LAMBDA asc :
  With(IF direction = "future" THEN asc ELSE Reverse(asc), LAMBDA ordered :
  \* .limit(pageSize + 1)
  With(SubSeq(ordered, 1, IF Len(ordered) > pageSize + 1 THEN pageSize + 1 ELSE Len(ordered)),
       LAMBDA results :
    LET hasMore == Len(results) > pageSize
        eventsList == IF hasMore THEN SubSeq(results, 1, pageSize) ELSE results
        nextCursor == IF hasMore /\ Len(eventsList) > 0
                      THEN LET lastEvent == eventsList[Len(eventsList)]
                           IN [start |-> evs[lastEvent].start, id |-> lastEvent]
                      ELSE NoCursor
    IN [events |-> eventsList, hasMore |-> hasMore, nextCursor |-> nextCursor]))))

(***************************************************************************)
(* EventDurationService                                                    *)
(***************************************************************************)
_pad_date_range(from, to) == [from |-> from - PadTicks, to |-> to + PadTicks]

RECURSIVE FetchLoop(_, _, _, _, _)
\* the do/while of _fetch_all_events: one page per iteration
FetchLoop(evs, from, to, cursor, acc) ==
  With(getEventsPaginated(evs, PageSize, cursor, "future", from), LAMBDA r :
  With(acc \o SelectSeq(r.events,
                LAMBDA id : ~(evs[id].isAllDay \/ (evs[id].start # NoTime /\ evs[id].start > to))),
       LAMBDA all :
    LET gotOne == Len(all) > Len(acc)
        hasMore == r.hasMore /\ gotOne
    IN IF hasMore THEN With(r.nextCursor, LAMBDA next : FetchLoop(evs, from, to, next, all))
       ELSE all))

_fetch_all_events(evs, from, to) == FetchLoop(evs, from, to, NoCursor, <<>>)

\* The boundaries are collected as ISO strings, sorted as strings and parsed
\* back; for four-digit years the string order is the chronological order and
\* the round trip returns the same instant.
_getAllBoundaries(evs, fetched) ==
  SortedTimes({evs[id].start : id \in {i \in Range(fetched) : evs[i].start # NoTime}}
              \cup {evs[id].end : id \in {i \in Range(fetched) : evs[i].end # NoTime}})

_get_events_in_range(evs, fetched, from, to) ==
  SelectSeq(fetched,
    LAMBDA id : /\ evs[id].start # NoTime /\ evs[id].end # NoTime
                /\ evs[id].start <= from /\ evs[id].end >= to)

\* One pass of the do/while body on the loop state [work, slice_duration, eventIdx]:
\*   event.effectiveDuration += 1; slice_duration -= 1;
\*   eventIdx = (eventIdx + 1) % slice_events.length
\* mutant of RoundRobinBody: eventIdx is never advanced
RoundRobinBodyStuck(st, slice_events) ==
  [work |-> [st.work EXCEPT ![slice_events[st.eventIdx + 1]] = @ + 1],
   slice_duration |-> st.slice_duration - TicksPerMinute,
   eventIdx |-> st.eventIdx]

RoundRobinBody(st, slice_events) ==
  [work |-> [st.work EXCEPT ![slice_events[st.eventIdx + 1]] = @ + 1],
   slice_duration |-> st.slice_duration - TicksPerMinute,
   eventIdx |-> (st.eventIdx + 1) % Len(slice_events)]

RECURSIVE RoundRobinLoop(_, _)
\* do { event = slice_events[eventIdx]; if (!event) break; ... } while (slice_duration > 0)
RoundRobinLoop(st, slice_events) ==
  IF Len(slice_events) = 0 THEN st.work
  ELSE LET next == RoundRobinBody(st, slice_events)
       IN IF next.slice_duration > 0 THEN RoundRobinLoop(next, slice_events) ELSE next.work

\* the working durations after one slice has been handed out (let eventIdx = 0)
RoundRobin(work, slice_events, slice_duration) ==
  With([work |-> work, slice_duration |-> slice_duration, eventIdx |-> 0],
       LAMBDA st : RoundRobinLoop(st, slice_events))

\* one iteration of for (i = 0; i < boundaries.length - 1; i++) on the loop
\* state [i, work, slices]; slices records what each slice handed out
SliceStep(evs, fetched, boundaries, st) ==
  LET slice_start == boundaries[st.i]
      slice_end == boundaries[st.i + 1]
      slice_duration == slice_end - slice_start
  IN With(_get_events_in_range(evs, fetched, slice_start, slice_end), LAMBDA slice_events :
     With(RoundRobin(st.work, slice_events, slice_duration), LAMBDA w2 :
       [i |-> st.i + 1,
        work |-> w2,
        slices |-> Append(st.slices,
                     [start |-> slice_start, end |-> slice_end, active |-> slice_events,
                      given |-> [k \in 1..Len(slice_events) |->
                                   w2[slice_events[k]] - st.work[slice_events[k]]]])]))

RECURSIVE SliceLoop(_, _, _, _)
SliceLoop(evs, fetched, boundaries, st) ==
  IF st.i >= Len(boundaries) THEN st
  ELSE With(SliceStep(evs, fetched, boundaries, st),
            LAMBDA next : SliceLoop(evs, fetched, boundaries, next))

\* mutant of ResetDurations: keeps the stored durations as the starting point
KeepDurations(evs, fetched) == [id \in Range(fetched) |-> evs[id].effectiveDuration]

\* for (const event of events) event.effectiveDuration = 0
ResetDurations(evs, fetched) == [id \in Range(fetched) |-> 0]

\* the store after recalculateDurations(from, to) and what the run did
RecalcRun(evs, from, to) ==
  With(_pad_date_range(from, to), LAMBDA p :
  With(_fetch_all_events(evs, p.from, p.to), LAMBDA fetched :
  With(_getAllBoundaries(evs, fetched), LAMBDA boundaries :
  With(ResetDurations(evs, fetched), LAMBDA reset :
  With(SliceLoop(evs, fetched, boundaries, [i |-> 1, work |-> reset, slices |-> <<>>]),
       LAMBDA r :
    [store |-> [id \in DOMAIN evs |->
                  IF id \in Range(fetched)
                  THEN [evs[id] EXCEPT !.effectiveDuration = r.work[id]]
                  ELSE evs[id]],
     fetched |-> fetched,
     slices |-> r.slices])))))

recalculateDurations(from, to) ==
  \E run \in {RecalcRun(events, from, to)} :
     /\ events' = run.store
     /\ lastOp' = [op |-> "recalculateDurations", from |-> from, to |-> to,
                   fetched |-> run.fetched, slices |-> run.slices,
                   \* the previous operation was the same call
                   repeated |-> /\ lastOp.op = "recalculateDurations"
                                /\ lastOp.from = from /\ lastOp.to = to]
     /\ UNCHANGED <<categories, catCache, calendars>>

(***************************************************************************)
(* Specification of the duration engine: a store as a sync leaves it, then *)
(* any sequence of recalculations.                                         *)
(***************************************************************************)
\* Math.round((end - start) / 60000): the nearest minute, a half rounded up
WallClockMinutes(start, end) == ((end - start) * 2 + TicksPerMinute) \div (2 * TicksPerMinute)

\* a calendars row as the sync inserts it: enabled, no change token yet
NewCalendar(title) ==
  [title |-> title, enabled |-> TRUE, syncToken |-> NULL, lastSyncAt |-> NULL]

\* the calendars table when calendar 1 has been synced
OneCalendar == [c \in {1} |-> NewCalendar(<<>>)]

NewEvent(title, isAllDay, start, end) ==
  [calendarId |-> 1, title |-> title, isAllDay |-> isAllDay, start |-> start, end |-> end,
   effectiveDuration |-> IF start # NoTime /\ end # NoTime THEN WallClockMinutes(start, end) ELSE 0,
   categoryId |-> NULL, isManuallyCategorized |-> NULL]

\* all-day events come from date-only remote items: whole-minute instants
AllDaySpans == {<<0, WindowBase + 4 * TicksPerMinute>>,
                <<WindowBase, WindowBase + 4 * TicksPerMinute>>}

\* timed events: every non-empty span over TimePoints and one empty span
TimedSpans ==
  {sp \in TimePoints \X TimePoints : sp[1] < sp[2]}
  \cup {<<WindowBase + TicksPerMinute + 1, WindowBase + TicksPerMinute + 1>>}

DurEventShapes ==
  {NewEvent(<<>>, FALSE, sp[1], sp[2]) : sp \in TimedSpans}
  \cup {NewEvent(<<>>, TRUE, sp[1], sp[2]) : sp \in AllDaySpans}

\* stores of 1..MaxEvents events; ids are numbered in (start, id) order
DurStores ==
  UNION {
    {s \in [1..n -> DurEventShapes] :
        \A i \in 1..(n - 1) : s[i].start <= s[i + 1].start}
    : n \in 1..MaxEvents}

NoOp == [op |-> "none"]

InitDur ==
  /\ events \in DurStores
  /\ categories = <<>>
  /\ catCache = NoCache
  /\ calendars = OneCalendar
  /\ lastOp = NoOp

NextDur ==
  \E from \in TimePoints, to \in TimePoints :
    /\ from <= to
    /\ recalculateDurations(from, to)

SpecDur == InitDur /\ [][NextDur]_vars

(***************************************************************************)
(* Claims about the duration engine                                        *)
(***************************************************************************)
AfterRecalc == lastOp.op = "recalculateDurations"

\* a timed event whose [start, end) meets the closed window [from, to]
Intersects(e, from, to) ==
  /\ ~e.isAllDay /\ e.start # NoTime /\ e.end # NoTime
  /\ e.start < e.end /\ e.start <= to /\ e.end > from

ActiveInWindow(evs, from, to) == {id \in DOMAIN evs : Intersects(evs[id], from, to)}

\* ticks covered by at least one event of S
CoveredTicks(evs, S) ==
  Cardinality({t \in 0..(WindowBase + 4 * TicksPerMinute) :
                 \E id \in S : evs[id].start <= t /\ t < evs[id].end})

OnWholeMinutes(evs) ==
  \A id \in DOMAIN evs : evs[id].start % TicksPerMinute = 0 /\ evs[id].end % TicksPerMinute = 0

OnlyTimed(evs) == \A id \in DOMAIN evs : ~evs[id].isAllDay

\* C1 (as claimed): duration conservation.  After recalculateDurations(from, to)
\* the effective durations of the events active during the window add up to
\* the wall-clock minutes covered by at least one of them.  Stated for stores
\* of timed events on whole minutes in which every event with a non-empty
\* interval meets the window, where every reading of the claim agrees.
C1_DurationConservation ==
  (/\ AfterRecalc
   /\ OnlyTimed(events) /\ OnWholeMinutes(events)
   /\ \A id \in DOMAIN events :
        events[id].start < events[id].end => Intersects(events[id], lastOp.from, lastOp.to))
  => LET S == ActiveInWindow(events, lastOp.from, lastOp.to)
     IN SumOver(S, [id \in S |-> events[id].effectiveDuration]) * TicksPerMinute
          = CoveredTicks(events, S)

\* C2 (as claimed): recalculateDurations(from, to) recomputes (fetches, resets
\* and writes back) every non-all-day event whose interval meets [from, to],
\* also one that starts more than the padding before the window.  Stated for
\* stores of timed events, so the page cut-off of the fetch plays no part.
C2_RecomputesEveryIntersecting ==
  (AfterRecalc /\ OnlyTimed(events))
  => \A id \in ActiveInWindow(events, lastOp.from, lastOp.to) : id \in Range(lastOp.fetched)

Abs(x) == IF x < 0 THEN -x ELSE x

\* C3: round-robin fairness.  In every slice of the last run the minutes given
\* to two active events differ by at most 1, the first active event is served
\* first (it has at least one minute and no later event has more than an
\* earlier one).
C3_RoundRobinFair ==
  AfterRecalc =>
    \A n \in 1..Len(lastOp.slices) :
      LET sl == lastOp.slices[n]
          N == Len(sl.active)
      IN N >= 1 =>
           /\ sl.given[1] >= 1
           /\ \A j \in 1..N, k \in 1..N :
                /\ Abs(sl.given[j] - sl.given[k]) <= 1
                /\ j < k => sl.given[j] >= sl.given[k]

\* three events share a slice of four minutes: 2, 1, 1
C3_Witness ==
  /\ AfterRecalc
  /\ \E n \in 1..Len(lastOp.slices) :
       /\ Len(lastOp.slices[n].active) = 3
       /\ lastOp.slices[n].given = <<2, 1, 1>>

\* C4: idempotence.  A recalculateDurations over the same window as the run
\* just before it, with nothing changed in between, leaves every stored
\* effectiveDuration as the first run left it.
C4_Idempotent ==
  [][(/\ AfterRecalc
      /\ lastOp'.op = "recalculateDurations"
      /\ lastOp'.from = lastOp.from /\ lastOp'.to = lastOp.to)
     => \A id \in DOMAIN events :
          events'[id].effectiveDuration = events[id].effectiveDuration]_vars

\* a second run in a row over a window in which the first run changed a
\* stored duration (two overlapping events were fetched)
C4_Witness ==
  /\ AfterRecalc /\ lastOp.repeated
  /\ \E id \in Range(lastOp.fetched) :
       /\ events[id].start < events[id].end
       /\ events[id].effectiveDuration # WallClockMinutes(events[id].start, events[id].end)

(***************************************************************************)
(* EventCategorizationService                                              *)
(* Titles, rule contents and category names are sequences of character     *)
(* codes; an event's isManuallyCategorized is "true", "false" or NULL.     *)
(***************************************************************************)
StartsWith(t, c) == Len(c) <= Len(t) /\ SubSeq(t, 1, Len(c)) = c
EndsWith(t, c) == Len(c) <= Len(t) /\ SubSeq(t, Len(t) - Len(c) + 1, Len(t)) = c
Includes(t, c) == \E i \in 0..(Len(t) - Len(c)) : SubSeq(t, i + 1, i + Len(c)) = c

ToLowerCode(c) == IF c >= 65 /\ c <= 90 THEN c + 32 ELSE c
ToLowerCase(t) == [i \in 1..Len(t) |-> ToLowerCode(t[i])]

\* The patterns the model draws are literal text (letters, digits, blanks),
\* which new RegExp(p, 'i') compiles to a case-insensitive search for p, and
\* text holding an unclosed "(", which new RegExp rejects.
IsLiteralPattern(p) ==
  \A i \in 1..Len(p) :
    \/ p[i] = 32
    \/ p[i] >= 48 /\ p[i] <= 57
    \/ p[i] >= 65 /\ p[i] <= 90
    \/ p[i] >= 97 /\ p[i] <= 122
RegExpTest(p, t) ==
  IF IsLiteralPattern(p) THEN Includes(ToLowerCase(t), ToLowerCase(p))
  ELSE FALSE   \* new RegExp throws, the catch returns false

\* mutant of eventMatchesRule: title and rule content are lower-cased first
eventMatchesRuleIgnoreCase(title, rule) ==
  CASE rule.type = "EQUALS" -> ToLowerCase(title) = ToLowerCase(rule.content)
    [] rule.type = "STARTS_WITH" -> StartsWith(ToLowerCase(title), ToLowerCase(rule.content))
    [] rule.type = "ENDS_WITH" -> EndsWith(ToLowerCase(title), ToLowerCase(rule.content))
    [] rule.type = "CONTAINS" -> Includes(ToLowerCase(title), ToLowerCase(rule.content))
    [] rule.type = "REGEX" -> RegExpTest(rule.content, title)
    [] OTHER -> FALSE

eventMatchesRule(title, rule) ==
  CASE rule.type = "EQUALS" -> title = rule.content
    [] rule.type = "STARTS_WITH" -> StartsWith(title, rule.content)
    [] rule.type = "ENDS_WITH" -> EndsWith(title, rule.content)
    [] rule.type = "CONTAINS" -> Includes(title, rule.content)
    [] rule.type = "REGEX" -> RegExpTest(rule.content, title)
    [] OTHER -> FALSE

\* lexicographic order of two texts by character code (SQLite BINARY collation)
RECURSIVE TextLess(_, _)
TextLess(a, b) ==
  IF Len(b) = 0 THEN FALSE
  ELSE IF Len(a) = 0 THEN TRUE
  ELSE IF a[1] # b[1] THEN a[1] < b[1]
  ELSE TextLess(Tail(a), Tail(b))

\* mutant of CategoryBefore: priority ascending
CategoryBeforeAscending(a, b) ==
  \/ a.priority < b.priority
  \/ a.priority = b.priority /\ TextLess(a.name, b.name)

\* ORDER BY priority DESC, name: a is strictly before b
CategoryBefore(a, b) ==
  \/ a.priority > b.priority
  \/ a.priority = b.priority /\ TextLess(a.name, b.name)

\* sequences of n distinct elements of S
Orderings(S) ==
  {q \in [1..Cardinality(S) -> S] : \A i, j \in 1..Cardinality(S) : i # j => q[i] # q[j]}

\* The lists the getCategories query may return: every row once, in an order
\* the ORDER BY allows (rows that tie in priority and name come in any order).
LoadedCategoryLists(cats) ==
  {[i \in 1..Len(q) |-> [id |-> q[i], name |-> cats[q[i]].name,
                         priority |-> cats[q[i]].priority, rules |-> cats[q[i]].rules]]
     : q \in {o \in Orderings(DOMAIN cats) :
                \A i, j \in 1..Len(o) : i < j => ~CategoryBefore(cats[o[j]], cats[o[i]])}}

\* index of the first rule of the list that matches, 0 if none
FirstRuleIndex(title, rules) ==
  IF \E k \in 1..Len(rules) : eventMatchesRule(title, rules[k])
  THEN CHOOSE k \in 1..Len(rules) :
         /\ eventMatchesRule(title, rules[k])
         /\ \A j \in 1..(k - 1) : ~eventMatchesRule(title, rules[j])
  ELSE 0

RECURSIVE ScanCategories(_, _, _)
\* for (const category of categories) { for (const rule of rules) ... }
ScanCategories(title, cats, i) ==
  IF i > Len(cats) THEN [found |-> FALSE]
  ELSE LET k == FirstRuleIndex(title, cats[i].rules)
       IN IF k > 0
          THEN [found |-> TRUE, categoryId |-> cats[i].id, matchedRule |-> cats[i].rules[k]]
          ELSE ScanCategories(title, cats, i + 1)

NoRule == [type |-> "none", content |-> <<>>]

\* mutant of categorizeEvent: the manual check is missing
categorizeEventNoSkip(event, cats) ==
  LET m == ScanCategories(event.title, cats, 1)
  IN IF m.found
     THEN [write |-> TRUE, categoryId |-> m.categoryId, isManuallyCategorized |-> "false",
           result |-> [categoryId |-> m.categoryId, matchedRule |-> m.matchedRule,
                       isManuallyCategorized |-> FALSE]]
     ELSE [write |-> event.categoryId # NULL,
           categoryId |-> NULL, isManuallyCategorized |-> NULL,
           result |-> [categoryId |-> NULL, matchedRule |-> NoRule,
                       isManuallyCategorized |-> FALSE]]

\* categorizeEvent that writes the cleared columns whenever no rule matches
categorizeEventAlwaysClear(event, cats) ==
  IF event.isManuallyCategorized = "true"
  THEN [write |-> FALSE, categoryId |-> event.categoryId, isManuallyCategorized |-> "true",
        result |-> [categoryId |-> event.categoryId, matchedRule |-> NoRule,
                    isManuallyCategorized |-> TRUE]]
  ELSE LET m == ScanCategories(event.title, cats, 1)
       IN IF m.found
          THEN [write |-> TRUE, categoryId |-> m.categoryId, isManuallyCategorized |-> "false",
                result |-> [categoryId |-> m.categoryId, matchedRule |-> m.matchedRule,
                            isManuallyCategorized |-> FALSE]]
          ELSE [write |-> TRUE,
                categoryId |-> NULL, isManuallyCategorized |-> NULL,
                result |-> [categoryId |-> NULL, matchedRule |-> NoRule,
                            isManuallyCategorized |-> FALSE]]

\* categorizeEvent on the row snapshot `event` with the category list `cats`:
\* whether the row is written, the written columns, and the returned result
categorizeEvent(event, cats) ==
  IF event.isManuallyCategorized = "true"
  THEN [write |-> FALSE, categoryId |-> event.categoryId, isManuallyCategorized |-> "true",
        result |-> [categoryId |-> event.categoryId, matchedRule |-> NoRule,
                    isManuallyCategorized |-> TRUE]]
  ELSE With(ScanCategories(event.title, cats, 1), LAMBDA m :
         IF m.found
         THEN [write |-> TRUE, categoryId |-> m.categoryId, isManuallyCategorized |-> "false",
               result |-> [categoryId |-> m.categoryId, matchedRule |-> m.matchedRule,
                           isManuallyCategorized |-> FALSE]]
         ELSE [write |-> event.isManuallyCategorized # "true" /\ event.categoryId # NULL,
               categoryId |-> NULL, isManuallyCategorized |-> NULL,
               result |-> [categoryId |-> NULL, matchedRule |-> NoRule,
                           isManuallyCategorized |-> FALSE]])

\* the store after each snapshot row of `out` has been processed
ApplyCategorization(evs, out) ==
  [id \in DOMAIN evs |->
     IF id \in DOMAIN out /\ out[id].write
     THEN [evs[id] EXCEPT !.categoryId = out[id].categoryId,
                          !.isManuallyCategorized = out[id].isManuallyCategorized]
     ELSE evs[id]]

\* rows selected by categorizeEvents(eventIds?): given = an id list was passed
EventsToProcess(evs, given, eventIds) ==
  IF given THEN {id \in DOMAIN evs : id \in eventIds}
  ELSE {id \in DOMAIN evs : evs[id].isManuallyCategorized \in {"false", NULL}}

\* one run of categorizeEvents on the store evs; cache is the service's
\* category cache and list the answer of the getCategories query, which is
\* sent by the first row that is not manual when nothing is cached
CategorizeRun(evs, cache, list, given, eventIds) ==
  With(EventsToProcess(evs, given, eventIds), LAMBDA eventsToProcess :
  With(IF cache.loaded THEN cache.list ELSE list, LAMBDA cats :
  With([id \in eventsToProcess |-> categorizeEvent(evs[id], cats)], LAMBDA out :
    LET needLoad == ~cache.loaded
                    /\ \E id \in eventsToProcess : evs[id].isManuallyCategorized # "true"
    IN [store |-> ApplyCategorization(evs, out),
        cache |-> IF needLoad THEN [loaded |-> TRUE, list |-> list] ELSE cache,
        processed |-> eventsToProcess,
        results |-> [id \in eventsToProcess |-> out[id].result],
        stats |-> [total |-> Cardinality(eventsToProcess),
                   categorized |-> Cardinality({id \in eventsToProcess :
                                      out[id].result.categoryId # NULL}),
                   uncategorized |-> Cardinality({id \in eventsToProcess :
                                      out[id].result.categoryId = NULL})]])))

\* categorizeEvents(eventIds?)
categorizeEvents(given, eventIds) ==
  \E list \in LoadedCategoryLists(categories) :
    \E run \in {CategorizeRun(events, catCache, list, given, eventIds)} :
       /\ events' = run.store
       /\ catCache' = run.cache
       /\ lastOp' = [op |-> "categorizeEvents", given |-> given,
                     processed |-> run.processed, results |-> run.results,
                     stats |-> run.stats]
       /\ UNCHANGED <<categories, calendars>>

\* the rows recategorizeEventsForCategory(categoryId) selects
CategoryEvents(evs, categoryId) ==
  {id \in DOMAIN evs : /\ evs[id].categoryId = categoryId
                       /\ evs[id].isManuallyCategorized = "false"}

\* one run of recategorizeEventsForCategory on the store evs
RecategorizeRun(evs, cache, list, categoryId) ==
  With(CategoryEvents(evs, categoryId), LAMBDA categoryEvents :
  \* Clear Categorization on all events
  With([id \in DOMAIN evs |->
          IF id \in categoryEvents
          THEN [evs[id] EXCEPT !.categoryId = NULL, !.isManuallyCategorized = NULL]
          ELSE evs[id]], LAMBDA cleared :
  With(IF cache.loaded THEN cache.list ELSE list, LAMBDA cats :
  \* updatedEvent = { ...event, categoryId: null, isManuallyCategorized: null }
  With([id \in categoryEvents |-> categorizeEvent(cleared[id], cats)], LAMBDA out :
    [store |-> ApplyCategorization(cleared, out),
     cache |-> IF ~cache.loaded /\ categoryEvents # {}
               THEN [loaded |-> TRUE, list |-> list] ELSE cache,
     processed |-> categoryEvents,
     results |-> [id \in categoryEvents |-> out[id].result]]))))

\* recategorizeEventsForCategory(categoryId)
recategorizeEventsForCategory(categoryId) ==
  \E list \in LoadedCategoryLists(categories) :
    \E run \in {RecategorizeRun(events, catCache, list, categoryId)} :
       /\ events' = run.store
       /\ catCache' = run.cache
       /\ lastOp' = [op |-> "recategorizeEventsForCategory", categoryId |-> categoryId,
                     given |-> FALSE, processed |-> run.processed,
                     results |-> run.results,
                     recategorizedCount |-> Cardinality(run.processed)]
       /\ UNCHANGED <<categories, calendars>>

\* manuallyAssignCategory(eventId, categoryId | null)
manuallyAssignCategory(eventId, categoryId) ==
  /\ eventId \in DOMAIN events
  /\ events' = [events EXCEPT ![eventId].categoryId = categoryId,
                              ![eventId].isManuallyCategorized =
                                 IF categoryId # NULL THEN "true" ELSE "false"]
  /\ lastOp' = [op |-> "manuallyAssignCategory", eventId |-> eventId, categoryId |-> categoryId]
  /\ UNCHANGED <<categories, catCache, calendars>>

(***************************************************************************)
(* Specification of the classification engine: a fixed category/rule set,  *)
(* events as a sync inserted them, then any sequence of manual assignments *)
(* and batch classifications on one service instance.                      *)
(***************************************************************************)
\* events of the classification specification are numbered 1..MaxCatEvents
MaxCatEvents == 2

TeamMeeting == <<84, 101, 97, 109, 32, 109, 101, 101, 116, 105, 110, 103>>
GymSession == <<71, 121, 109, 32, 115, 101, 115, 115, 105, 111, 110>>
Lunch == <<76, 117, 110, 99, 104>>
gymSessionLower == <<103, 121, 109, 32, 115, 101, 115, 115, 105, 111, 110>>
TextMeeting == <<109, 101, 101, 116, 105, 110, 103>>
TextGym == <<103, 121, 109>>
TextTeam == <<84, 101, 97, 109>>
TextOpenParen == <<40>>
NameWork == <<87, 111, 114, 107>>
NamePersonal == <<80, 101, 114, 115, 111, 110, 97, 108>>

Titles == {TeamMeeting, GymSession, Lunch, gymSessionLower}

Rule(type, content) == [type |-> type, content |-> content]
Category(name, priority, rules) ==
  [name |-> name, color |-> "#000000", priority |-> priority, rules |-> rules,
   parentCategoryId |-> NULL]

\* "Work" priority 10 CONTAINS "meeting"; "Personal" priority 5 CONTAINS "gym"
WorkPersonalSet ==
  [c \in {"c1", "c2"} |->
     IF c = "c1" THEN Category(NameWork, 10, <<Rule("CONTAINS", TextMeeting)>>)
     ELSE Category(NamePersonal, 5, <<Rule("CONTAINS", TextGym)>>)]

CategorySets ==
  { WorkPersonalSet,
    \* the higher priority is stored second; both match "Team meeting"
    [c \in {"c1", "c2"} |->
       IF c = "c1" THEN Category(NamePersonal, 5, <<Rule("STARTS_WITH", TextTeam)>>)
       ELSE Category(NameWork, 10, <<Rule("ENDS_WITH", TextMeeting)>>)],
    \* equal priority: the name decides
    [c \in {"c1", "c2"} |->
       IF c = "c1" THEN Category(NameWork, 5, <<Rule("CONTAINS", TextMeeting)>>)
       ELSE Category(NamePersonal, 5, <<Rule("CONTAINS", TextTeam)>>)],
    \* equal priority and name: the query may return either order
    [c \in {"c1", "c2"} |->
       IF c = "c1" THEN Category(NameWork, 5, <<Rule("CONTAINS", TextMeeting)>>)
       ELSE Category(NameWork, 5, <<Rule("CONTAINS", TextTeam)>>)],
    \* a category without rules, an invalid regex, a regex, rule order
    [c \in {"c1", "c2", "c3"} |->
       IF c = "c1" THEN Category(NameWork, 10, <<>>)
       ELSE IF c = "c2"
       THEN Category(NamePersonal, 5, <<Rule("REGEX", TextOpenParen), Rule("REGEX", TextGym),
                                        Rule("STARTS_WITH", TextGym)>>)
       ELSE Category(NameWork, 5, <<Rule("EQUALS", Lunch), Rule("ENDS_WITH", TextMeeting)>>)] }

InitCat ==
  /\ categories \in CategorySets
  /\ events \in [1..MaxCatEvents -> {NewEvent(t, FALSE, 0, TicksPerMinute) : t \in Titles}]
  /\ catCache = NoCache
  /\ calendars = OneCalendar
  /\ lastOp = NoOp

NextCat ==
  \/ \E id \in DOMAIN events, c \in DOMAIN categories \cup {NULL} : manuallyAssignCategory(id, c)
  \/ categorizeEvents(FALSE, {})
  \/ \E ids \in SUBSET DOMAIN events : ids # {} /\ categorizeEvents(TRUE, ids)
  \/ \E c \in DOMAIN categories : recategorizeEventsForCategory(c)

SpecCat == InitCat /\ [][NextCat]_vars

(***************************************************************************)
(* Claims about the classification engine                                  *)
(***************************************************************************)
AfterBatch == lastOp.op \in {"categorizeEvents", "recategorizeEventsForCategory"}

\* C5: manual override immunity.  A step of categorizeEvents (with or without
\* an id list) or of recategorizeEventsForCategory leaves categoryId and
\* isManuallyCategorized of every manually categorized event as they were.
C5_ManualImmunity ==
  [][lastOp'.op \in {"categorizeEvents", "recategorizeEventsForCategory"}
     => \A id \in DOMAIN events :
          events[id].isManuallyCategorized = "true"
          => /\ events'[id].categoryId = events[id].categoryId
             /\ events'[id].isManuallyCategorized = "true"]_vars

\* categorizeEvents was handed the id of a manually categorized event whose
\* title matches a rule of another category, and the event kept its category
C5_Witness ==
  /\ lastOp.op = "categorizeEvents" /\ lastOp.given
  /\ \E id \in lastOp.processed :
       /\ events[id].isManuallyCategorized = "true"
       /\ lastOp.results[id].isManuallyCategorized
       /\ \E c \in DOMAIN categories :
            /\ c # events[id].categoryId
            /\ FirstRuleIndex(events[id].title, categories[c].rules) > 0

\* the categories with a rule that matches the title
MatchingCategories(cats, title) ==
  {c \in DOMAIN cats : \E k \in 1..Len(cats[c].rules) : eventMatchesRule(title, cats[c].rules[k])}

\* the claimed order of evaluation: a comes strictly before b when its priority
\* is higher, or equal with a name that sorts first
EvaluatedBefore(a, b) ==
  \/ a.priority > b.priority
  \/ a.priority = b.priority /\ TextLess(a.name, b.name)

\* C6: first match wins.  Every row a batch classified that was not manual
\* ends in a category that has a matching rule and that no other category with
\* a matching rule precedes by (priority descending, name ascending); the
\* returned rule is the first matching rule of that category's list; the row
\* ends without a category when no rule of any category matches.
C6_FirstMatchWins ==
  AfterBatch =>
    \A id \in lastOp.processed :
      ~lastOp.results[id].isManuallyCategorized =>
        LET M == MatchingCategories(categories, events[id].title)
            c == lastOp.results[id].categoryId
        IN IF M = {}
           THEN c = NULL /\ events[id].categoryId = NULL
           ELSE /\ c \in M
                /\ events[id].categoryId = c
                /\ events[id].isManuallyCategorized = "false"
                /\ \A d \in M : ~EvaluatedBefore(categories[d], categories[c])
                /\ \E k \in 1..Len(categories[c].rules) :
                     /\ lastOp.results[id].matchedRule = categories[c].rules[k]
                     /\ \A j \in 1..(k - 1) :
                          ~eventMatchesRule(events[id].title, categories[c].rules[j])

\* a row matched by two categories went to the one of higher priority, which
\* the store holds second
C6_Witness ==
  /\ AfterBatch
  /\ \E id \in lastOp.processed :
       /\ ~lastOp.results[id].isManuallyCategorized
       /\ Cardinality(MatchingCategories(categories, events[id].title)) = 2
       /\ events[id].categoryId = "c2"
       /\ categories["c2"].priority > categories["c1"].priority

AfterClassifyAllOfScenario ==
  /\ categories = WorkPersonalSet
  /\ lastOp.op = "categorizeEvents" /\ ~lastOp.given

\* C7 (as claimed): with Work (10, CONTAINS "meeting") and Personal (5, CONTAINS
\* "gym"), "Team meeting" is classified Work, "Gym session" is classified
\* Personal and "Lunch" stays uncategorized.
C7_Scenario ==
  AfterClassifyAllOfScenario =>
    \A id \in DOMAIN events :
      events[id].isManuallyCategorized # "true" =>
        /\ events[id].title = TeamMeeting => events[id].categoryId = "c1"
        /\ events[id].title = GymSession => events[id].categoryId = "c2"
        /\ events[id].title = Lunch => events[id].categoryId = NULL

\* C7 (amended): "Team meeting" is classified Work; "Gym session" and "Lunch"
\* stay uncategorized, because CONTAINS compares case-sensitively and "gym"
\* does not occur in "Gym session"; "gym session" is classified Personal.
C7_ScenarioCaseSensitive ==
  AfterClassifyAllOfScenario =>
    \A id \in DOMAIN events :
      events[id].isManuallyCategorized # "true" =>
        /\ events[id].title = TeamMeeting => events[id].categoryId = "c1"
        /\ events[id].title = GymSession => events[id].categoryId = NULL
        /\ events[id].title = gymSessionLower => events[id].categoryId = "c2"
        /\ events[id].title = Lunch => events[id].categoryId = NULL

C7_Witness ==
  /\ AfterClassifyAllOfScenario
  /\ \E a, b \in lastOp.processed :
       /\ events[a].title = TeamMeeting /\ events[a].categoryId = "c1"
       /\ events[b].title = GymSession /\ events[b].categoryId = NULL

(***************************************************************************)
(* CategoryService                                                         *)
(* categories is the table: a function from the ids of the stored rows.    *)
(* An input object is a record whose domain is the set of fields given.    *)
(***************************************************************************)
\* at most MaxCategories category rows exist at a time
MaxCategories == 3
CategoryIdPool == <<"c1", "c2", "c3", "c4", "c5", "c6">>
CategoryIds == {CategoryIdPool[i] : i \in 1..MaxCategories}

\* getCategoryById: the row, or null
HasCategory(cats, id) == id \in DOMAIN cats

RECURSIVE CircularWalk(_, _, _, _)
\* the while (currentId) loop of wouldCreateCircularReference; "hang" when the
\* loop would never end (it runs around a cycle that does not hold categoryId)
CircularWalk(cats, categoryId, currentId, fuel) ==
  IF currentId = NULL THEN "false"
  ELSE IF currentId = categoryId THEN "true"
  ELSE IF ~HasCategory(cats, currentId) THEN "false"
  ELSE IF fuel = 0 THEN "hang"
  ELSE CircularWalk(cats, categoryId, cats[currentId].parentCategoryId, fuel - 1)

\* mutant of wouldCreateCircularReference: only the direct self-reference is seen
wouldCreateCircularReferenceSelfOnly(cats, categoryId, potentialParentId) ==
  IF categoryId = potentialParentId THEN "true" ELSE "false"

wouldCreateCircularReference(cats, categoryId, potentialParentId) ==
  IF categoryId = potentialParentId THEN "true"
  ELSE CircularWalk(cats, categoryId, potentialParentId, Cardinality(DOMAIN cats))

\* the columns the .set({...}) of updateCategory carries
UpdateColumns(input) ==
  {f \in DOMAIN input :
     \/ f = "name" /\ input[f] # <<>>
     \/ f = "color" /\ input[f] # ""
     \/ f \in {"priority", "rules", "parentCategoryId"}}

\* the table after UPDATE categories SET ... WHERE id = id
UpdatedCategories(cats, id, input) ==
  [c \in DOMAIN cats |->
     IF c = id
     THEN [f \in DOMAIN cats[c] |-> IF f \in UpdateColumns(input) THEN input[f] ELSE cats[c][f]]
     ELSE cats[c]]

\* createCategory(input): the row gets a fresh id
createCategory(input) ==
  \E id \in CategoryIds \ DOMAIN categories :
    /\ categories' = [c \in DOMAIN categories \cup {id} |->
                        IF c = id
                        THEN [name |-> input.name, color |-> input.color,
                              priority |-> IF "priority" \in DOMAIN input THEN input.priority ELSE 0,
                              rules |-> IF "rules" \in DOMAIN input THEN input.rules ELSE <<>>,
                              parentCategoryId |-> IF "parentCategoryId" \in DOMAIN input
                                                   THEN input.parentCategoryId ELSE NULL]
                        ELSE categories[c]]
    /\ lastOp' = [op |-> "createCategory", categoryId |-> id, threw |-> FALSE]
    /\ UNCHANGED <<events, catCache, calendars>>

\* mutant of UpdateCategoryOutcomes: the circular reference check is missing
UpdateCategoryOutcomesUnchecked(cats, id, input) ==
  IF UpdateColumns(input) = {}
  THEN {[cats |-> cats, threw |-> t] : t \in BOOLEAN}
  ELSE {[cats |-> UpdatedCategories(cats, id, input), threw |-> FALSE]}

\* the outcome of updateCategory(id, input) on the table cats: the table
\* afterwards and whether the call threw.  An update that carries no column
\* is left to the query builder: it changes nothing, and may throw.
UpdateCategoryOutcomes(cats, id, input) ==
  LET circular == IF "parentCategoryId" \in DOMAIN input
                  THEN wouldCreateCircularReference(cats, id, input.parentCategoryId)
                  ELSE "false"
  IN IF circular = "true" THEN {[cats |-> cats, threw |-> TRUE]}
     ELSE IF circular = "hang" THEN {}
     ELSE IF UpdateColumns(input) = {}
     THEN {[cats |-> cats, threw |-> t] : t \in BOOLEAN}
     ELSE {[cats |-> UpdatedCategories(cats, id, input), threw |-> FALSE]}

updateCategory(id, input) ==
  \E o \in UpdateCategoryOutcomes(categories, id, input) :
    /\ categories' = o.cats
    /\ lastOp' = [op |-> "updateCategory", categoryId |-> id, input |-> input, threw |-> o.threw]
    /\ UNCHANGED <<events, catCache, calendars>>

\* moveCategory(categoryId, newParentId | null)
moveCategory(categoryId, newParentId) ==
  LET circular == IF newParentId # NULL
                  THEN wouldCreateCircularReference(categories, categoryId, newParentId)
                  ELSE "false"
      \* { parentCategoryId: newParentId || undefined }
      input == IF newParentId # NULL THEN [parentCategoryId |-> newParentId]
               ELSE [f \in {} |-> NULL]
  IN /\ circular # "hang"
     /\ \E o \in IF circular = "true" THEN {[cats |-> categories, threw |-> TRUE]}
                 ELSE UpdateCategoryOutcomes(categories, categoryId, input) :
          /\ categories' = o.cats
          /\ lastOp' = [op |-> "moveCategory", categoryId |-> categoryId,
                        newParentId |-> newParentId, threw |-> o.threw]
     /\ UNCHANGED <<events, catCache, calendars>>

\* deleteCategory(id); the events of a deleted category lose it (ON DELETE SET NULL)
deleteCategory(id) ==
  LET children == {c \in DOMAIN categories : categories[c].parentCategoryId = id}
  IN IF children # {}
     THEN /\ lastOp' = [op |-> "deleteCategory", categoryId |-> id, threw |-> TRUE]
          /\ UNCHANGED <<events, categories, catCache, calendars>>
     ELSE /\ categories' = [c \in DOMAIN categories \ {id} |-> categories[c]]
          /\ events' = [e \in DOMAIN events |->
                          IF events[e].categoryId = id
                          THEN [events[e] EXCEPT !.categoryId = NULL]
                          ELSE events[e]]
          /\ lastOp' = [op |-> "deleteCategory", categoryId |-> id, threw |-> FALSE]
          /\ UNCHANGED <<catCache, calendars>>

(***************************************************************************)
(* Specification of the category tree: an empty table, then any sequence   *)
(* of createCategory, updateCategory, moveCategory and deleteCategory.     *)
(***************************************************************************)
InitTree ==
  /\ categories = <<>>
  /\ events = <<>>
  /\ catCache = NoCache
  /\ calendars = <<>>
  /\ lastOp = NoOp

NextTree ==
  \/ \E p \in DOMAIN categories :
       createCategory([name |-> NameWork, color |-> "#000000", parentCategoryId |-> p])
  \/ createCategory([name |-> NameWork, color |-> "#000000"])
  \/ \E id \in DOMAIN categories, p \in DOMAIN categories :
       updateCategory(id, [parentCategoryId |-> p])
  \/ \E id \in DOMAIN categories : updateCategory(id, [priority |-> 10])
  \/ \E id \in DOMAIN categories, p \in DOMAIN categories \cup {NULL} : moveCategory(id, p)
  \/ \E id \in DOMAIN categories : deleteCategory(id)

SpecTree == InitTree /\ [][NextTree]_vars

(***************************************************************************)
(* Claims about the category tree                                          *)
(***************************************************************************)
RECURSIVE AncestorsWithin(_, _, _)
\* the categories reached from id by following parentCategoryId at most n times
AncestorsWithin(cats, id, n) ==
  IF n = 0 \/ ~HasCategory(cats, id) \/ cats[id].parentCategoryId = NULL THEN {}
  ELSE {cats[id].parentCategoryId} \cup AncestorsWithin(cats, cats[id].parentCategoryId, n - 1)

Ancestors(cats, id) == AncestorsWithin(cats, id, Cardinality(DOMAIN cats))

\* d is a or a descendant of a
DescendantOrSelf(cats, d, a) == d = a \/ a \in Ancestors(cats, d)

\* the (category, new parent) pair of a reparenting call, <<>> otherwise
ReparentCall(op) ==
  IF op.op = "moveCategory" /\ op.newParentId # NULL THEN <<op.categoryId, op.newParentId>>
  ELSE IF op.op = "updateCategory" /\ "parentCategoryId" \in DOMAIN op.input
  THEN <<op.categoryId, op.input.parentCategoryId>>
  ELSE <<>>

\* C8: no-cycle rejection.  moveCategory(A, D) and updateCategory(A,
\* {parentCategoryId: D}) with D = A or D a descendant of A throw and leave the
\* stored categories as they were.
C8_CycleRejected ==
  [][LET call == ReparentCall(lastOp')
     IN (call # <<>> /\ DescendantOrSelf(categories, call[2], call[1]))
        => lastOp'.threw /\ categories' = categories]_vars

\* moveCategory onto a grandchild was rejected
C8_Witness ==
  /\ lastOp.op = "moveCategory" /\ lastOp.threw
  /\ lastOp.newParentId # NULL
  /\ lastOp.newParentId # lastOp.categoryId
  /\ HasCategory(categories, lastOp.newParentId)
  /\ categories[lastOp.newParentId].parentCategoryId # lastOp.categoryId
  /\ lastOp.categoryId \in Ancestors(categories, lastOp.newParentId)

\* C9: the category tree is acyclic: following parentCategoryId from a
\* category never comes back to it.
C9_Acyclic == \A c \in DOMAIN categories : c \notin Ancestors(categories, c)

\* a category that has a child was moved under another category: a chain of
\* three levels
C9_Witness ==
  /\ lastOp.op = "moveCategory" /\ ~lastOp.threw /\ lastOp.newParentId # NULL
  /\ categories[lastOp.categoryId].parentCategoryId = lastOp.newParentId
  /\ \E c \in DOMAIN categories : categories[c].parentCategoryId = lastOp.categoryId

(***************************************************************************)
(* CalendarSyncService                                                     *)
(* calendars is the table: a function from the ids of the stored rows.     *)
(* The remote side of one sync is an input: the answer of                  *)
(* calendarList.list() and, per calendar, the answers of the successive    *)
(* events.list() requests.                                                 *)
(***************************************************************************)
\* remote calendars are numbered 1..MaxCalendars
MaxCalendars == 2
\* remote events are numbered 1..MaxSyncEvents
MaxSyncEvents == 2
\* new Date(8640000000000000), the latest Date: an instant after every
\* instant of the model
MaxDate == 1000000

UntitledEvent == <<85, 110, 116, 105, 116, 108, 101, 100, 32, 69, 118, 101, 110, 116>>

\* the {dateTime?, date?} object of a remote event
DateTime(t) == [kind |-> "dateTime", at |-> t]
NoTimeObj == [kind |-> "none", at |-> NoTime]

parseEventTime(timeObj) ==
  IF timeObj.kind = "dateTime" THEN timeObj.at
  ELSE IF timeObj.kind = "date" THEN timeObj.at
  ELSE NoTime

\* the row values of the upsert: title, isAllDay, start, end, effectiveDuration
\* from the remote event; categoryId and isManuallyCategorized are not given
EventValues(calendarId, googleEvent) ==
  [NewEvent(IF googleEvent.summary = <<>> THEN UntitledEvent ELSE googleEvent.summary,
            googleEvent.start.kind # "dateTime",
            parseEventTime(googleEvent.start),
            parseEventTime(googleEvent.end))
     EXCEPT !.calendarId = calendarId]

\* mutant of UpsertEvent: the row is replaced on conflict
UpsertEventReplace(evs, calendarId, googleEvent) ==
  [id \in DOMAIN evs \cup {googleEvent.id} |->
     IF id = googleEvent.id THEN EventValues(calendarId, googleEvent) ELSE evs[id]]

\* mutant of UpsertEvent: a row that exists is left as it is
UpsertEventIgnoreConflict(evs, calendarId, googleEvent) ==
  [id \in DOMAIN evs \cup {googleEvent.id} |->
     IF id \in DOMAIN evs THEN evs[id] ELSE EventValues(calendarId, googleEvent)]

\* insert(events).values(...).onConflictDoUpdate({target: events.id, set: ...})
UpsertEvent(evs, calendarId, googleEvent) ==
  LET v == EventValues(calendarId, googleEvent)
  IN [id \in DOMAIN evs \cup {googleEvent.id} |->
        IF id # googleEvent.id THEN evs[id]
        ELSE IF id \in DOMAIN evs
        THEN [evs[id] EXCEPT !.title = v.title, !.isAllDay = v.isAllDay,
                             !.start = v.start, !.end = v.end,
                             !.effectiveDuration = v.effectiveDuration]
        ELSE v]

\* what the sync reports and asks, in order: the progress objects handed to
\* the progress callback (status, and the calendar it names: the summary of
\* the calendar for syncing_calendars, its id for syncing_events; 0 if none),
\* the events.list() requests sent and the rows of calendars updated with a
\* token
Progress(status, calendarId) ==
  [kind |-> "progress", status |-> status, calendarId |-> calendarId,
   pageToken |-> NULL, syncToken |-> NULL]
CalendarUpdate(calendarId, syncToken) ==
  [kind |-> "update", status |-> "", calendarId |-> calendarId,
   pageToken |-> NULL, syncToken |-> syncToken]

\* mutant of EventsListRequest: the change token is sent with every request
EventsListRequestAlwaysToken(calendarId, pageToken, syncToken) ==
  [kind |-> "request", status |-> "", calendarId |-> calendarId,
   pageToken |-> pageToken, syncToken |-> syncToken]

\* events.list({calendarId, pageToken, syncToken: !pageToken ? syncToken : undefined})
EventsListRequest(calendarId, pageToken, syncToken) ==
  [kind |-> "request", status |-> "", calendarId |-> calendarId,
   pageToken |-> pageToken,
   syncToken |-> IF pageToken = NULL THEN syncToken ELSE NULL]

\* the body of for (const googleEvent of response.items) on the loop state
\* [store, eventsSynced, earliest, latest, cancelled, ...]
ProcessItem(st, calendarId, googleEvent) ==
  LET startTime == parseEventTime(googleEvent.start)
      endTime == parseEventTime(googleEvent.end)
  IN [st EXCEPT
        !.store = IF googleEvent.status = "cancelled"
                  THEN [id \in DOMAIN st.store \ {googleEvent.id} |-> st.store[id]]
                  ELSE UpsertEvent(st.store, calendarId, googleEvent),
        !.cancelled = IF googleEvent.status = "cancelled"
                      THEN st.cancelled \cup {googleEvent.id} ELSE st.cancelled,
        !.eventsSynced = st.eventsSynced + 1,
        !.earliest = IF startTime = NoTime \/ st.earliest < startTime
                     THEN st.earliest ELSE startTime,
        !.latest = IF endTime = NoTime \/ st.latest > endTime
                   THEN st.latest ELSE endTime]

RECURSIVE ProcessItems(_, _, _, _, _)
\* the loop over response.items; the write (delete or upsert) of the item at
\* position writeThrowsAt throws, 0 if none does
ProcessItems(st, calendarId, items, writeThrowsAt, k) ==
  IF k > Len(items) THEN st
  ELSE IF k = writeThrowsAt THEN [st EXCEPT !.threw = TRUE]
  ELSE With(ProcessItem(st, calendarId, items[k]),
            LAMBDA next : ProcessItems(next, calendarId, items, writeThrowsAt, k + 1))

\* an answer of events.list(): it throws, or it carries items, nextPageToken
\* and nextSyncToken; writeThrowsAt is the position of the item whose write to
\* the store throws, 0 if none does
Threw == [threw |-> TRUE, items |-> <<>>, nextPageToken |-> NULL, nextSyncToken |-> NULL,
          writeThrowsAt |-> 0]
Response(items, nextPageToken, nextSyncToken) ==
  [threw |-> FALSE, items |-> items, nextPageToken |-> nextPageToken,
   nextSyncToken |-> nextSyncToken, writeThrowsAt |-> 0]
WriteThrows(response, k) == [response EXCEPT !.writeThrowsAt = k]

\* the answers end with a throw or with a page without nextPageToken, and
\* every earlier page has one
WellFormedAnswers(answers) ==
  /\ Len(answers) > 0
  /\ \A k \in 1..Len(answers) :
       (/\ ~answers[k].threw
        /\ answers[k].writeThrowsAt \notin 1..Len(answers[k].items)
        /\ answers[k].nextPageToken # NULL) <=> k < Len(answers)

\* pageToken = response.nextPageToken; nextSyncToken = response.nextSyncToken;
\* updateProgress({status: 'syncing_events', ...}): the end of one pass of the
\* page loop, reached unless a write of the pass threw; done is the loop state
\* after the items of the response
PageLoopEnd(done, calendarId, response) ==
  IF done.threw THEN done
  ELSE [done EXCEPT !.pageToken = response.nextPageToken,
                    !.nextSyncToken = response.nextSyncToken,
                    !.log = Append(@, Progress("syncing_events", calendarId))]

RECURSIVE PageLoop(_, _, _, _, _)
\* do { response = events.list(...); items; pageToken = ...; nextSyncToken = ... }
\* while (pageToken) on the loop state
\* [store, eventsSynced, earliest, latest, cancelled, pageToken, nextSyncToken,
\*  threw, log]; syncToken is the stored token
PageLoop(st, calendarId, syncToken, answers, k) ==
  With(answers[k], LAMBDA response :
  With([st EXCEPT !.log = Append(@, EventsListRequest(calendarId, st.pageToken, syncToken))],
       LAMBDA asked :
    IF response.threw THEN [asked EXCEPT !.threw = TRUE]
    ELSE With(PageLoopEnd(ProcessItems(asked, calendarId, response.items,
                                       response.writeThrowsAt, 1),
                          calendarId, response),
              LAMBDA done :
                IF ~done.threw /\ done.pageToken # NULL
                THEN PageLoop(done, calendarId, syncToken, answers, k + 1)
                ELSE done)))

\* mutant of StoreToken: the token is stored although the page loop threw
StoreTokenOnThrow(r, cals, calendarId) ==
  IF r.nextSyncToken # NULL
  THEN [calendars |-> [cals EXCEPT ![calendarId].syncToken = r.nextSyncToken,
                                   ![calendarId].lastSyncAt = "set"],
        log |-> Append(r.log, CalendarUpdate(calendarId, r.nextSyncToken))]
  ELSE [calendars |-> cals, log |-> r.log]

\* if (nextSyncToken) update(calendars).set({syncToken, lastSyncAt}), reached
\* only if the page loop r did not throw: the table and the log afterwards
StoreToken(r, cals, calendarId) ==
  IF ~r.threw /\ r.nextSyncToken # NULL
  THEN [calendars |-> [cals EXCEPT ![calendarId].syncToken = r.nextSyncToken,
                                   ![calendarId].lastSyncAt = "set"],
        log |-> Append(r.log, CalendarUpdate(calendarId, r.nextSyncToken))]
  ELSE [calendars |-> cals, log |-> r.log]

\* syncCalendarEvents(calendarId, ...) on the store evs and the table cals:
\* the store and table afterwards, what it returns, whether it threw, and the
\* log extended by what it reported, asked and updated
syncCalendarEvents(evs, cals, calendarId, answers, log) ==
  With([store |-> evs, eventsSynced |-> 0, earliest |-> MaxDate, latest |-> 0,
        cancelled |-> {}, pageToken |-> NULL, nextSyncToken |-> NULL, threw |-> FALSE,
        log |-> Append(log, Progress("syncing_events", calendarId))], LAMBDA st :
  \* syncToken = existingCalendar[0]?.syncToken || undefined
  With(PageLoop(st, calendarId, cals[calendarId].syncToken, answers, 1), LAMBDA r :
  With(StoreToken(r, cals, calendarId), LAMBDA stored :
    [threw |-> r.threw, store |-> r.store, calendars |-> stored.calendars,
     eventsSynced |-> r.eventsSynced, earliest |-> r.earliest, latest |-> r.latest,
     cancelled |-> r.cancelled, log |-> stored.log])))

\* mutant of UpsertCalendar: the conflict update writes the inserted values,
\* enabled: true among them
UpsertCalendarEnable(cals, calendar) ==
  [c \in DOMAIN cals \cup {calendar.id} |->
     IF c # calendar.id THEN cals[c]
     ELSE IF c \in DOMAIN cals
     THEN [cals[c] EXCEPT !.title = calendar.summary, !.enabled = TRUE]
     ELSE NewCalendar(calendar.summary)]

\* insert(calendars).values(...).onConflictDoUpdate({set: {title, timeZone}})
UpsertCalendar(cals, calendar) ==
  [c \in DOMAIN cals \cup {calendar.id} |->
     IF c # calendar.id THEN cals[c]
     ELSE IF c \in DOMAIN cals THEN [cals[c] EXCEPT !.title = calendar.summary]
     ELSE NewCalendar(calendar.summary)]

\* the body of for (i = 0; i < googleCalendars.length; i++) on the loop state
\* [store, calendars, calendarsSynced, totalEventsSynced, earliest, latest,
\*  errors, cancelled, log]; calendar = [id, summary, upsertThrows, answers]
CalendarStep(st, calendar) ==
  With(Append(st.log, Progress("syncing_calendars", calendar.id)), LAMBDA log :
  IF calendar.upsertThrows
  THEN [st EXCEPT !.errors = Append(@, calendar.id), !.log = log]
  ELSE
    With(UpsertCalendar(st.calendars, calendar), LAMBDA cals :
      IF ~cals[calendar.id].enabled
      THEN [st EXCEPT !.calendars = cals, !.calendarsSynced = @ + 1, !.log = log]
      ELSE
        With(syncCalendarEvents(st.store, cals, calendar.id, calendar.answers, log),
             LAMBDA syncInfo :
          IF syncInfo.threw
          THEN [st EXCEPT !.store = syncInfo.store, !.calendars = syncInfo.calendars,
                          !.calendarsSynced = @ + 1,
                          !.errors = Append(@, calendar.id),
                          !.cancelled = @ \cup syncInfo.cancelled,
                          !.log = syncInfo.log]
          ELSE [st EXCEPT !.store = syncInfo.store, !.calendars = syncInfo.calendars,
                          !.calendarsSynced = @ + 1,
                          !.totalEventsSynced = @ + syncInfo.eventsSynced,
                          !.earliest = IF st.earliest < syncInfo.earliest
                                       THEN st.earliest ELSE syncInfo.earliest,
                          !.latest = IF st.latest > syncInfo.latest
                                     THEN st.latest ELSE syncInfo.latest,
                          !.cancelled = @ \cup syncInfo.cancelled,
                          !.log = syncInfo.log])))

RECURSIVE CalendarLoop(_, _, _)
CalendarLoop(st, googleCalendars, i) ==
  IF i > Len(googleCalendars) THEN st
  ELSE With(googleCalendars[i], LAMBDA calendar :
       With(CalendarStep(st, calendar),
            LAMBDA next : CalendarLoop(next, googleCalendars, i + 1)))

\* mutant of SyncFailed: the catch rethrows at once, without the idle report
\* and without lastSyncInfo
SyncFailedRethrowOnly(st, cache) ==
  [threw |-> TRUE, store |-> st.store, calendars |-> st.calendars, cache |-> cache,
   cancelled |-> st.cancelled,
   lastSyncInfo |-> [calendarsSynced |-> 0, eventsSynced |-> 0, errors |-> <<>>],
   log |-> st.log]

\* the outer catch of syncAllCalendars on the loop state st: the error is
\* pushed, idle is reported, lastSyncInfo holds the counts gathered so far and
\* the sync throws
SyncFailed(st, cache) ==
  [threw |-> TRUE, store |-> st.store, calendars |-> st.calendars, cache |-> cache,
   cancelled |-> st.cancelled,
   lastSyncInfo |-> [calendarsSynced |-> st.calendarsSynced,
                     eventsSynced |-> st.totalEventsSynced,
                     errors |-> Append(st.errors, 0)],
   log |-> Append(st.log, Progress("idle", 0))]

\* the phases of syncAllCalendars after the loop over the calendars, on the
\* loop state st
SyncPhasesAfterCalendars(st, cache, list) ==
  \* this.categorizationService.categorizeEvents()
  With(CategorizeRun(st.store, cache, list, FALSE, {}), LAMBDA cat :
  \* this.eventDurationService.recalculateDurations(earliest, latest, ...)
  With(RecalcRun(cat.store, st.earliest, st.latest), LAMBDA dur :
    [threw |-> FALSE, store |-> dur.store, calendars |-> st.calendars,
     cache |-> cat.cache, cancelled |-> st.cancelled,
     lastSyncInfo |-> [calendarsSynced |-> st.calendarsSynced,
                       eventsSynced |-> st.totalEventsSynced,
                       eventsCategorized |-> cat.stats.categorized,
                       errors |-> st.errors],
     \* the statuses 'updating_durations: ...' that the throttled callback of
     \* the duration service relays after crunching_numbers are not logged
     log |-> st.log \o <<Progress("categorizing_events", 0),
                         Progress("crunching_numbers", 0),
                         Progress("idle", 0)>>]))

\* the state of syncAllCalendars before calendarList.list()
SyncStart(evs, cals) ==
  [store |-> evs, calendars |-> cals, calendarsSynced |-> 0,
   totalEventsSynced |-> 0, earliest |-> MaxDate, latest |-> 0,
   errors |-> <<>>, cancelled |-> {},
   log |-> <<Progress("syncing_calendars", 0)>>]

\* mutant of SyncAllCalendarsRun: the failure of a calendar is not caught in
\* the loop and reaches the outer catch
SyncAllCalendarsRunNoIsolation(evs, cals, cache, list, remote) ==
  IF remote.listThrows THEN SyncFailed(SyncStart(evs, cals), cache)
  ELSE
    With([SyncStart(evs, cals) EXCEPT !.log = Append(@, Progress("syncing_calendars", 0))],
         LAMBDA st0 :
    With(CalendarLoop(st0, remote.calendars, 1), LAMBDA st :
      IF st.errors # <<>> THEN SyncFailed(st, cache)
      ELSE SyncPhasesAfterCalendars(st, cache, list)))

\* CalendarSyncService.syncAllCalendars() on the store evs, the table cals and
\* the categorization cache; remote = [listThrows, calendars]; list is the
\* answer of the getCategories query if the categorization sends it.  The
\* error list holds the id of each calendar that failed, and 0 for the failure
\* of the whole sync.
SyncAllCalendarsRun(evs, cals, cache, list, remote) ==
  IF remote.listThrows THEN SyncFailed(SyncStart(evs, cals), cache)
  ELSE
    With([SyncStart(evs, cals) EXCEPT !.log = Append(@, Progress("syncing_calendars", 0))],
         LAMBDA st0 :
    With(CalendarLoop(st0, remote.calendars, 1), LAMBDA st :
      SyncPhasesAfterCalendars(st, cache, list)))

\* what a step of syncAllCalendars leaves on record: its outcome and, when the
\* step is traced, the remote answers and the log of statuses and requests
SyncRecord(forceResync, remote, run, traced) ==
  LET outcome == [op |-> "syncAllCalendars", forceResync |-> forceResync,
                  threw |-> run.threw, cancelled |-> run.cancelled,
                  lastSyncInfo |-> run.lastSyncInfo,
                  \* manual events whose title this sync changed
                  retitled |-> {id \in DOMAIN events \cap DOMAIN run.store :
                                  /\ events[id].isManuallyCategorized = "true"
                                  /\ run.store[id].title # events[id].title},
                  \* events that had a category before this sync and have none now
                  cleared |-> {id \in DOMAIN events \cap DOMAIN run.store :
                                 /\ events[id].categoryId # NULL
                                 /\ run.store[id].categoryId = NULL}]
  IN IF traced
     THEN [op |-> outcome.op, forceResync |-> outcome.forceResync, threw |-> outcome.threw,
           cancelled |-> outcome.cancelled, lastSyncInfo |-> outcome.lastSyncInfo,
           retitled |-> outcome.retitled, cleared |-> outcome.cleared,
           remote |-> remote, log |-> run.log]
     ELSE outcome

\* the provider's syncAllCalendars(forceResync?): resetCalendarsAndEvents()
\* when forced, then the service's syncAllCalendars()
SyncStep(forceResync, remote, traced) ==
  /\ \A i \in 1..Len(remote.calendars) : WellFormedAnswers(remote.calendars[i].answers)
  /\ \E list \in LoadedCategoryLists(categories) :
      \E run \in {SyncAllCalendarsRun(IF forceResync THEN <<>> ELSE events,
                                     IF forceResync THEN <<>> ELSE calendars,
                                     catCache, list, remote)} :
        /\ events' = run.store
        /\ calendars' = run.calendars
        /\ catCache' = run.cache
        /\ lastOp' = SyncRecord(forceResync, remote, run, traced)
        /\ UNCHANGED categories

\* a sync, with its outcome on record
syncAllCalendars(forceResync, remote) ==
  SyncStep(forceResync, remote, FALSE)

\* a sync that is not forced, with its remote answers and its log on record
syncAllCalendarsTraced(remote) ==
  SyncStep(FALSE, remote, TRUE)

\* CalendarService.toggleCalendarEnabled(calendarId)
toggleCalendarEnabled(calendarId) ==
  /\ calendarId \in DOMAIN calendars
  /\ calendars' = [calendars EXCEPT ![calendarId].enabled = ~@]
  /\ lastOp' = [op |-> "toggleCalendarEnabled", calendarId |-> calendarId]
  /\ UNCHANGED <<events, categories, catCache>>

(***************************************************************************)
(* Specification of the sync: a fresh install that holds the Work/Personal *)
(* categories, then any sequence of syncs (forced or not) against any      *)
(* remote answers, manual assignments and calendar toggles, each run to    *)
(* completion.                                                             *)
(***************************************************************************)
SyncToken == "t1"
PageToken == "p1"

RemoteEvent(id, status, summary, start, end) ==
  [id |-> id, status |-> status, summary |-> summary, start |-> start, end |-> end]

\* the remote events of a calendar: event ids are dealt to the calendars in turn
EventsOfCalendar(calendarId) ==
  {id \in 1..MaxSyncEvents : (id - 1) % MaxCalendars = calendarId - 1}

\* per remote event: a cancellation, a two-minute "Team meeting" and a
\* two-minute "Lunch" that starts one minute later
RemoteEvents(calendarId) ==
  UNION {
    {RemoteEvent(id, "cancelled", <<>>, NoTimeObj, NoTimeObj),
     RemoteEvent(id, "confirmed", TeamMeeting,
                 DateTime(WindowBase), DateTime(WindowBase + 2 * TicksPerMinute)),
     RemoteEvent(id, "confirmed", Lunch,
                 DateTime(WindowBase + TicksPerMinute), DateTime(WindowBase + 3 * TicksPerMinute))}
    : id \in EventsOfCalendar(calendarId)}

\* the answers of one calendar: a failure, an empty answer without a token,
\* one page with a token, two pages, or a failure on the second page
AnswerLists(calendarId) ==
  {<<Threw>>, <<Response(<<>>, NULL, NULL)>>}
  \cup {<<Response(<<e>>, NULL, SyncToken)>> : e \in RemoteEvents(calendarId)}
  \cup {<<Response(<<e>>, PageToken, NULL), Response(<<f>>, NULL, SyncToken)>>
          : e \in RemoteEvents(calendarId), f \in RemoteEvents(calendarId)}
  \cup {<<Response(<<e>>, PageToken, NULL), Threw>> : e \in RemoteEvents(calendarId)}

\* the answers of a calendar of a list of several calendars
ShortAnswerLists(calendarId) ==
  {<<Threw>>} \cup {<<Response(<<e>>, NULL, SyncToken)>> : e \in RemoteEvents(calendarId)}

RemoteCalendar(id, upsertThrows, answers) ==
  [id |-> id, summary |-> IF id = 1 THEN NameWork ELSE NamePersonal,
   upsertThrows |-> upsertThrows, answers |-> answers]

\* the calendar at position i of a list of several calendars
RemoteCalendarsAt(i) ==
  {RemoteCalendar(i, FALSE, a) : a \in ShortAnswerLists(i)}
  \cup IF i = 1 THEN {RemoteCalendar(1, TRUE, <<Threw>>)} ELSE {}

RemoteCalendarLists ==
  {<<RemoteCalendar(1, FALSE, a)>> : a \in AnswerLists(1)}
  \cup UNION {
    {l \in [1..n -> UNION {RemoteCalendarsAt(i) : i \in 1..n}] :
       \A i \in 1..n : l[i] \in RemoteCalendarsAt(i)}
    : n \in 2..MaxCalendars}

Remotes ==
  {[listThrows |-> TRUE, calendars |-> <<>>]}
  \cup {[listThrows |-> FALSE, calendars |-> l] : l \in RemoteCalendarLists}

\* the remote answers of a forced resync: one calendar, at most one page
ForcedRemotes ==
  {[listThrows |-> FALSE, calendars |-> <<RemoteCalendar(1, FALSE, a)>>]
     : a \in ShortAnswerLists(1)}

InitSync ==
  /\ events = <<>>
  /\ categories = WorkPersonalSet
  /\ catCache = NoCache
  /\ calendars = <<>>
  /\ lastOp = NoOp

NextSync ==
  \/ \E remote \in Remotes : syncAllCalendars(FALSE, remote)
  \/ \E remote \in ForcedRemotes : syncAllCalendars(TRUE, remote)
  \/ \E id \in DOMAIN events, c \in DOMAIN categories \cup {NULL} : manuallyAssignCategory(id, c)
  \/ \E c \in DOMAIN calendars : toggleCalendarEnabled(c)

SpecSync == InitSync /\ [][NextSync]_vars

(***************************************************************************)
(* Claims about the sync                                                   *)
(***************************************************************************)
\* C10: sync does not clobber manual overrides.  A step of a non-forced
\* syncAllCalendars leaves every event that was manually categorized before
\* it, and that the remote did not mark cancelled, in the store with the same
\* categoryId and isManuallyCategorized = true.
C10_SyncKeepsManual ==
  [][(lastOp'.op = "syncAllCalendars" /\ ~lastOp'.forceResync)
     => \A id \in DOMAIN events :
          (events[id].isManuallyCategorized = "true" /\ id \notin lastOp'.cancelled)
          => /\ id \in DOMAIN events'
             /\ events'[id].categoryId = events[id].categoryId
             /\ events'[id].isManuallyCategorized = "true"]_vars

\* a non-forced sync gave a manually categorized Personal event the title
\* "Team meeting", which matches the rule of Work, and new times; the event is
\* still manual and Personal
C10_Witness ==
  /\ lastOp.op = "syncAllCalendars" /\ ~lastOp.forceResync /\ ~lastOp.threw
  /\ \E id \in lastOp.retitled \ lastOp.cancelled :
       /\ events[id].title = TeamMeeting
       /\ events[id].start = WindowBase
       /\ events[id].categoryId = "c2"
       /\ events[id].isManuallyCategorized = "true"

\* C20: no-match rule.  A step of a non-forced syncAllCalendars that ran its
\* categorization pass leaves every event that was not manually categorized
\* before it, that the remote did not mark cancelled and whose title now
\* matches no rule of any category, as follows: if it had a category it ends
\* with categoryId = null and isManuallyCategorized = null; if it had none its
\* categoryId and isManuallyCategorized are exactly what they were.
C20_NoMatchRule ==
  [][(lastOp'.op = "syncAllCalendars" /\ ~lastOp'.forceResync /\ ~lastOp'.threw)
     => \A id \in (DOMAIN events \cap DOMAIN events') \ lastOp'.cancelled :
          (/\ events[id].isManuallyCategorized # "true"
           /\ MatchingCategories(categories, events'[id].title) = {})
          => IF events[id].categoryId # NULL
             THEN /\ events'[id].categoryId = NULL
                  /\ events'[id].isManuallyCategorized = NULL
             ELSE /\ events'[id].categoryId = NULL
                  /\ events'[id].isManuallyCategorized = events[id].isManuallyCategorized]_vars

\* a non-forced sync gave an automatically categorized event the title
\* "Lunch", which matches no rule: its category and its flag are cleared;
\* another event, whose category had been removed by hand (flag false), was
\* processed by the same pass and still carries the flag false
C20_Witness ==
  /\ lastOp.op = "syncAllCalendars" /\ ~lastOp.forceResync /\ ~lastOp.threw
  /\ \E id \in lastOp.cleared \ lastOp.cancelled :
       /\ events[id].title = Lunch
       /\ events[id].categoryId = NULL
       /\ events[id].isManuallyCategorized = NULL
  /\ \E id \in DOMAIN events \ lastOp.cancelled :
       /\ events[id].title = Lunch
       /\ events[id].categoryId = NULL
       /\ events[id].isManuallyCategorized = "false"

(***************************************************************************)
(* Specification of the sync protocol: the same fresh install, then any    *)
(* sequence of syncs and calendar toggles against remote answers that      *)
(* fail at every point, carry tokens on final and non-final pages and span *)
(* one or two pages.                                                       *)
(***************************************************************************)
NewSyncToken == "t2"

\* per remote event: a cancellation and a two-minute "Team meeting"
TraceEvents(calendarId) ==
  UNION {
    {RemoteEvent(id, "cancelled", <<>>, NoTimeObj, NoTimeObj),
     RemoteEvent(id, "confirmed", TeamMeeting,
                 DateTime(WindowBase), DateTime(WindowBase + 2 * TicksPerMinute))}
    : id \in EventsOfCalendar(calendarId)}

\* the answers of a calendar that is synced alone
TraceAnswerLists(calendarId) ==
  {<<Threw>>, <<Response(<<>>, NULL, NULL)>>}
  \cup UNION {
    {<<Response(<<e>>, NULL, SyncToken)>>,
     <<Response(<<e>>, NULL, NewSyncToken)>>,
     <<WriteThrows(Response(<<e>>, NULL, NewSyncToken), 1)>>,
     <<Response(<<e>>, PageToken, NULL), Response(<<e>>, NULL, NewSyncToken)>>,
     <<Response(<<e>>, PageToken, NewSyncToken), Response(<<>>, NULL, NULL)>>,
     <<Response(<<e>>, PageToken, NewSyncToken), Threw>>,
     <<Response(<<e>>, PageToken, NULL), WriteThrows(Response(<<e>>, NULL, NewSyncToken), 1)>>}
    : e \in TraceEvents(calendarId)}

\* the answers of a calendar of a list of several calendars
TraceShortAnswerLists(calendarId) ==
  {<<Threw>>}
  \cup UNION {
    {<<Response(<<e>>, NULL, SyncToken)>>,
     <<WriteThrows(Response(<<e, e>>, NULL, SyncToken), 2)>>}
    : e \in {f \in TraceEvents(calendarId) : f.status = "confirmed"}}

\* the answers of a later calendar that carries an event of the calendar
\* before it (an event the owner of both calendars attends on both)
TraceSharedAnswerLists(calendarId) ==
  IF calendarId = 1 THEN {}
  ELSE {<<Response(<<e>>, NULL, SyncToken)>> : e \in TraceEvents(calendarId - 1)}

TraceCalendarsAt(i) ==
  {RemoteCalendar(i, FALSE, a) : a \in TraceShortAnswerLists(i) \cup TraceSharedAnswerLists(i)}
  \cup {RemoteCalendar(i, TRUE, <<Threw>>)}

TraceCalendarLists ==
  {<<RemoteCalendar(1, FALSE, a)>> : a \in TraceAnswerLists(1)}
  \cup UNION {
    {l \in [1..n -> UNION {TraceCalendarsAt(i) : i \in 1..n}] :
       \A i \in 1..n : l[i] \in TraceCalendarsAt(i)}
    : n \in 2..MaxCalendars}

TraceRemotes ==
  {[listThrows |-> TRUE, calendars |-> <<>>]}
  \cup {[listThrows |-> FALSE, calendars |-> l] : l \in TraceCalendarLists}

NextTrace ==
  \/ \E remote \in TraceRemotes : syncAllCalendarsTraced(remote)
  \/ \E c \in DOMAIN calendars : toggleCalendarEnabled(c)

SpecTrace == InitSync /\ [][NextTrace]_vars

(***************************************************************************)
(* Claims about the sync protocol                                          *)
(***************************************************************************)
\* the sync of the calendar fails if one of its answers throws or the write
\* of one of its items throws
AnswersThrow(answers) ==
  \E k \in 1..Len(answers) :
     answers[k].threw \/ answers[k].writeThrowsAt \in 1..Len(answers[k].items)

\* the calendar is enabled when the sync reads its row: it is new, or its row
\* says so
EnabledAtSync(calendarId) ==
  calendarId \notin DOMAIN calendars \/ calendars[calendarId].enabled

\* the remote calendar fails in the sync that starts in this state
CalendarFails(calendar) ==
  \/ calendar.upsertThrows
  \/ EnabledAtSync(calendar.id) /\ AnswersThrow(calendar.answers)

RECURSIVE FailedIds(_, _)
\* the ids of the calendars of the list that fail, from position i on, in order
FailedIds(googleCalendars, i) ==
  IF i > Len(googleCalendars) THEN <<>>
  ELSE (IF CalendarFails(googleCalendars[i]) THEN <<googleCalendars[i].id>> ELSE <<>>)
       \o FailedIds(googleCalendars, i + 1)

\* the positions of the log with the given progress status
StatusPositions(log, status) ==
  {k \in 1..Len(log) : log[k].kind = "progress" /\ log[k].status = status}

\* the requests of the log for the calendar, in order
RequestsOf(log, calendarId) ==
  SelectSeq(log, LAMBDA x : x.kind = "request" /\ x.calendarId = calendarId)

\* a step of syncAllCalendars whose calendar list was fetched
SyncStepListed == lastOp'.op = "syncAllCalendars" /\ ~lastOp'.remote.listThrows

\* C11: per-calendar failure isolation.  In a step of syncAllCalendars whose
\* calendar list was fetched, the error list holds exactly the calendars whose
\* upsert or event sync threw, in order; every calendar of the remote list is
\* still processed (reported, its row upserted unless its upsert threw, its
\* event pages requested if it is enabled); the categorization and duration
\* phases are reported after the last calendar and lastSyncInfo carries the
\* categorization count; every stored Team meeting that is not manual is in
\* category Work afterwards; and syncAllCalendars does not throw.
C11_FailureIsolation ==
  [][SyncStepListed =>
       LET googleCalendars == lastOp'.remote.calendars
           log == lastOp'.log
       IN /\ ~lastOp'.threw
          /\ lastOp'.lastSyncInfo.errors = FailedIds(googleCalendars, 1)
          /\ \A i \in 1..Len(googleCalendars) :
               LET c == googleCalendars[i]
               IN /\ \E k \in StatusPositions(log, "syncing_calendars") :
                       log[k].calendarId = c.id
                  /\ ~c.upsertThrows =>
                       /\ c.id \in DOMAIN calendars'
                       /\ EnabledAtSync(c.id) => RequestsOf(log, c.id) # <<>>
          /\ \E k \in StatusPositions(log, "categorizing_events") :
               /\ \A j \in 1..Len(log) : log[j].calendarId # 0 => j < k
               /\ \E d \in StatusPositions(log, "crunching_numbers") : k < d
          /\ "eventsCategorized" \in DOMAIN lastOp'.lastSyncInfo
          /\ \A id \in DOMAIN events' :
               (events'[id].title = TeamMeeting /\ events'[id].isManuallyCategorized # "true")
               => events'[id].categoryId = "c1"]_vars

\* a sync of two calendars: the first failed after its first item was written,
\* the second was synced; both events are stored and in category Work, the
\* error list names the first calendar only and the sync did not throw
C11_Witness ==
  /\ lastOp.op = "syncAllCalendars" /\ ~lastOp.threw
  /\ Len(lastOp.remote.calendars) = 2
  /\ lastOp.remote.calendars[1].answers[1].writeThrowsAt = 2
  /\ lastOp.lastSyncInfo.errors = <<1>>
  /\ lastOp.lastSyncInfo.eventsSynced = 1
  /\ DOMAIN events = {1, 2}
  /\ \A id \in DOMAIN events : events[id].categoryId = "c1"

\* C12: top-level failure.  In a step of syncAllCalendars whose calendar-list
\* fetch throws, syncAllCalendars throws, the last reported progress status is
\* idle, lastSyncInfo holds the counts gathered so far (no calendar, no event)
\* and a non-empty error list, and no calendar or event row is written.
C12_ListFailure ==
  [][(lastOp'.op = "syncAllCalendars" /\ lastOp'.remote.listThrows)
     => /\ lastOp'.threw
        /\ lastOp'.log[Len(lastOp'.log)] = Progress("idle", 0)
        /\ lastOp'.lastSyncInfo.calendarsSynced = 0
        /\ lastOp'.lastSyncInfo.eventsSynced = 0
        /\ lastOp'.lastSyncInfo.errors # <<>>
        /\ events' = events
        /\ calendars' = calendars]_vars

\* the calendar-list fetch failed in a sync that followed a successful one:
\* the stored calendar, its token and its event are still there
C12_Witness ==
  /\ lastOp.op = "syncAllCalendars" /\ lastOp.remote.listThrows /\ lastOp.threw
  /\ 1 \in DOMAIN calendars /\ calendars[1].syncToken = SyncToken
  /\ 1 \in DOMAIN events

\* the place of a progress status in the order of the phases
PhaseRank(status) ==
  CASE status = "syncing_calendars" -> 1
    [] status = "syncing_events" -> 2
    [] status = "categorizing_events" -> 3
    [] status = "crunching_numbers" -> 4
    [] status = "idle" -> 5

\* C13: sync phase order.  After a syncAllCalendars run that did not throw,
\* the progress statuses it reported are in the order syncing_calendars,
\* syncing_events, categorizing_events, crunching_numbers (the duration
\* phase), idle: no status is followed by one of an earlier phase.
C13_PhaseOrder ==
  (lastOp.op = "syncAllCalendars" /\ ~lastOp.threw)
  => \A j, k \in {i \in 1..Len(lastOp.log) : lastOp.log[i].kind = "progress"} :
        j < k => PhaseRank(lastOp.log[j].status) <= PhaseRank(lastOp.log[k].status)

\* the positions of the log where the row of the calendar is updated with a
\* token
UpdatesOf(log, calendarId) ==
  {k \in 1..Len(log) : log[k].kind = "update" /\ log[k].calendarId = calendarId}

\* C14: the change token is persisted only on full success.  In a step of
\* syncAllCalendars, for each calendar of the remote list: if the calendar is
\* synced and no page request and no event write throws and the final page
\* carries a change token, then every page was requested, the row is updated
\* once, after the last request, and holds that token and a lastSyncAt;
\* otherwise the row is not updated and its stored syncToken and lastSyncAt
\* are the ones from before the sync (none for a new calendar).
C14_TokenOnFullSuccess ==
  [][SyncStepListed =>
       \A i \in 1..Len(lastOp'.remote.calendars) :
          LET c == lastOp'.remote.calendars[i]
              log == lastOp'.log
              final == c.answers[Len(c.answers)]
              persisted == /\ ~c.upsertThrows /\ EnabledAtSync(c.id)
                           /\ ~AnswersThrow(c.answers)
                           /\ final.nextSyncToken # NULL
          IN IF persisted
             THEN /\ Len(RequestsOf(log, c.id)) = Len(c.answers)
                  /\ Cardinality(UpdatesOf(log, c.id)) = 1
                  /\ \A u \in UpdatesOf(log, c.id) :
                       \A k \in 1..Len(log) :
                          (log[k].kind = "request" /\ log[k].calendarId = c.id) => k < u
                  /\ calendars'[c.id].syncToken = final.nextSyncToken
                  /\ calendars'[c.id].lastSyncAt = "set"
             ELSE /\ UpdatesOf(log, c.id) = {}
                  /\ c.id \in DOMAIN calendars =>
                       /\ calendars'[c.id].syncToken = calendars[c.id].syncToken
                       /\ calendars'[c.id].lastSyncAt = calendars[c.id].lastSyncAt
                  /\ (c.id \in DOMAIN calendars' \ DOMAIN calendars) =>
                       /\ calendars'[c.id].syncToken = NULL
                       /\ calendars'[c.id].lastSyncAt = NULL]_vars

\* the calendar holds the token of an earlier sync after a sync whose first
\* page carried a new token and whose second page request threw
C14_Witness ==
  /\ lastOp.op = "syncAllCalendars" /\ ~lastOp.remote.listThrows
  /\ Len(lastOp.remote.calendars) = 1
  /\ Len(lastOp.remote.calendars[1].answers) = 2
  /\ lastOp.remote.calendars[1].answers[1].nextSyncToken = NewSyncToken
  /\ lastOp.remote.calendars[1].answers[2].threw
  /\ lastOp.lastSyncInfo.errors = <<1>>
  /\ calendars[1].syncToken = SyncToken

\* the token stored for the calendar when the sync starts
StoredToken(calendarId) ==
  IF calendarId \in DOMAIN calendars THEN calendars[calendarId].syncToken ELSE NULL

\* the answer ends the page loop: it throws, a write of its items throws, or
\* it has no next-page token
EndsLoop(answer) ==
  \/ answer.threw
  \/ answer.writeThrowsAt \in 1..Len(answer.items)
  \/ answer.nextPageToken = NULL

\* C15: token use per request.  In a step of syncAllCalendars, for each
\* calendar that is synced, the first events.list() request carries no page
\* token and the stored change token; every later request carries the page
\* token the previous page returned and no change token; and the requests end
\* with the first answer that has no next-page token (or fails).
C15_TokenPerRequest ==
  [][SyncStepListed =>
       \A i \in 1..Len(lastOp'.remote.calendars) :
          LET c == lastOp'.remote.calendars[i]
              requests == RequestsOf(lastOp'.log, c.id)
          IN IF c.upsertThrows \/ ~EnabledAtSync(c.id) THEN requests = <<>>
             ELSE /\ Len(requests) \in 1..Len(c.answers)
                  /\ requests[1].pageToken = NULL
                  /\ requests[1].syncToken = StoredToken(c.id)
                  /\ \A k \in 2..Len(requests) :
                       /\ requests[k].pageToken = c.answers[k - 1].nextPageToken
                       /\ requests[k].syncToken = NULL
                  /\ \A k \in 1..Len(requests) :
                       EndsLoop(c.answers[k]) <=> k = Len(requests)]_vars

\* a sync of a calendar with a stored token that took two requests: the first
\* carried the stored token, the second the page token only
C15_Witness ==
  /\ lastOp.op = "syncAllCalendars" /\ ~lastOp.remote.listThrows
  /\ LET requests == RequestsOf(lastOp.log, 1)
     IN /\ Len(requests) = 2
        /\ requests[1].syncToken = SyncToken /\ requests[1].pageToken = NULL
        /\ requests[2].syncToken = NULL /\ requests[2].pageToken = PageToken

\* the ids of the items that the answers of the remote carry
CarriedIds(remote) ==
  UNION {UNION {{remote.calendars[i].answers[k].items[j].id
                   : j \in 1..Len(remote.calendars[i].answers[k].items)}
                : k \in 1..Len(remote.calendars[i].answers)}
         : i \in 1..Len(remote.calendars)}

\* the stored events of the calendar
EventsIn(calendarId) == {id \in DOMAIN events : events[id].calendarId = calendarId}

updateEvent(id, start, end) ==
  /\ id \in DOMAIN events
  /\ events' = [events EXCEPT ![id].start = start, ![id].end = end,
                              ![id].effectiveDuration = WallClockMinutes(start, end)]
  /\ lastOp' = [op |-> "updateEvent", id |-> id]
  /\ UNCHANGED <<categories, catCache, calendars>>

\* per remote event: a two-minute item, an item that ends two minutes before
\* it starts and an item that ends long before it starts
SpanEvents(calendarId) ==
  UNION {
    {RemoteEvent(id, "confirmed", <<>>,
                 DateTime(WindowBase), DateTime(WindowBase + 2 * TicksPerMinute)),
     RemoteEvent(id, "confirmed", <<>>,
                 DateTime(WindowBase + 2 * TicksPerMinute), DateTime(WindowBase)),
     RemoteEvent(id, "confirmed", <<>>,
                 DateTime(WindowBase + 4 * TicksPerMinute), DateTime(0))}
    : id \in EventsOfCalendar(calendarId)}

\* the remote side of a sync: one calendar, one page, one item
SpanRemotes ==
  UNION {
    {[listThrows |-> FALSE,
      calendars |-> <<RemoteCalendar(c, FALSE, <<Response(<<e>>, NULL, SyncToken)>>)>>]
       : e \in SpanEvents(c)}
    : c \in 1..MaxCalendars}

\* the instants a reschedule or a recalculation is given
SpanPoints == {WindowBase, WindowBase + 2 * TicksPerMinute}

InitSpan ==
  /\ events = <<>>
  /\ categories = <<>>
  /\ catCache = NoCache
  /\ calendars = <<>>
  /\ lastOp = NoOp

NextSpan ==
  \/ \E remote \in SpanRemotes : syncAllCalendars(FALSE, remote)
  \/ \E id \in DOMAIN events, start \in SpanPoints, end \in SpanPoints :
       start <= end /\ updateEvent(id, start, end)
  \/ \E from \in SpanPoints, to \in SpanPoints :
       from <= to /\ recalculateDurations(from, to)

SpecSpan == InitSpan /\ [][NextSpan]_vars

\* C17: effectiveDuration is never negative.  In every state of the store
\* reached by syncs (of remote items whose end may precede their start),
\* reschedules and recalculations, every event row has effectiveDuration >= 0.
C17_NonNegativeDuration ==
  \A id \in DOMAIN events : events[id].effectiveDuration >= 0

(***************************************************************************)
(* EventDurationService._updateProgress: the throttle of the progress      *)
(* callback.  _progressCounter only decides which of the calls of          *)
(* _updateProgress reach onProgress; the store that recalculateDurations   *)
(* leaves does not depend on it.                                           *)
(***************************************************************************)
\* if (this._progressCounter < 10)
ProgressEvery == 10

\* _updateProgress on the counter: the counter afterwards and whether
\* onProgress is invoked
_updateProgress(counter) ==
  IF counter < ProgressEvery
  THEN [counter |-> counter + 1, invoked |-> FALSE]
  ELSE [counter |-> 0, invoked |-> TRUE]

RECURSIVE PhaseCalls(_, _, _, _)
\* the calls _updateProgress(phase, i, total, onProgress) for i = completed..total
\* on the state [counter, calls]; calls are the invocations of onProgress
PhaseCalls(st, phase, completed, total) ==
  IF completed > total THEN st
  ELSE LET r == _updateProgress(st.counter)
           next == [counter |-> r.counter,
                    calls |-> IF r.invoked
                              THEN Append(st.calls, [phase |-> phase, completed |-> completed,
                                                     total |-> total])
                              ELSE st.calls]
       IN PhaseCalls(next, phase, completed + 1, total)

\* the progress of one recalculateDurations(from, to, onProgress) whose run
\* is given, on a service whose _progressCounter is counter: one call of
\* _updateProgress per slice, then one per updated event
ProgressCalls(counter, run) ==
  PhaseCalls(PhaseCalls([counter |-> counter, calls |-> <<>>],
                        "splitting_boundaries", 1, Len(run.slices)),
             "updating_database", 1, Len(run.fetched))

\* recalculateDurations(from, to, onProgress) on a service whose
\* _progressCounter is counter
recalculateDurationsOnProgress(counter, from, to) ==
  \E run \in {RecalcRun(events, from, to)} :
    \E progress \in {ProgressCalls(counter, run)} :
     /\ events' = run.store
     /\ lastOp' = [op |-> "recalculateDurationsOnProgress", from |-> from, to |-> to,
                   counter |-> counter, slices |-> Len(run.slices),
                   fetched |-> Len(run.fetched),
                   calls |-> progress.calls, counterAfter |-> progress.counter]
     /\ UNCHANGED <<categories, catCache, calendars>>

(***************************************************************************)
(* Specification of the progress reports: a store of overlapping two-      *)
(* minute events, then any sequence of recalculations with a callback on a *)
(* service whose throttle counter is in any of its states.                 *)
(***************************************************************************)
ProgressStores ==
  {[i \in 1..n |-> NewEvent(<<>>, FALSE, WindowBase + (i - 1) * TicksPerMinute,
                            WindowBase + (i + 1) * TicksPerMinute)]
     : n \in 1..MaxEvents}

InitProgress ==
  /\ events \in ProgressStores
  /\ categories = <<>>
  /\ catCache = NoCache
  /\ calendars = OneCalendar
  /\ lastOp = NoOp

NextProgress ==
  \E counter \in 0..ProgressEvery, from \in TimePoints, to \in TimePoints :
    /\ from <= to
    /\ recalculateDurationsOnProgress(counter, from, to)

SpecProgress == InitProgress /\ [][NextProgress]_vars

\* C18: the throttled progress never drops the final call.  After a
\* recalculateDurations with a callback, for each of its two phases with
\* total > 0 the callback has been invoked with completed = total of that
\* phase, whatever the throttle counter was before.
C18_FinalProgressCall ==
  lastOp.op = "recalculateDurationsOnProgress"
  => /\ lastOp.slices > 0 =>
          \E k \in 1..Len(lastOp.calls) :
             /\ lastOp.calls[k].phase = "splitting_boundaries"
             /\ lastOp.calls[k].completed = lastOp.slices
     /\ lastOp.fetched > 0 =>
          \E k \in 1..Len(lastOp.calls) :
             /\ lastOp.calls[k].phase = "updating_database"
             /\ lastOp.calls[k].completed = lastOp.fetched

(***************************************************************************)
(* groupEvents: the widths of the event blocks of one day.  An input event *)
(* is [id, start, end]; a width is the fraction num/den.  The code         *)
(* computes the widths in floating point; the rounding error of the        *)
(* repeated width -= 1 / group.length is below group.length * 2^-53 and    *)
(* cannot carry a width to 0 or above 1.                                   *)
(***************************************************************************)
\* the longest input list
MaxLayoutEvents == 5

\* event.start < e.end && event.end > e.start
Overlaps(event, e) == event.start < e.end /\ event.end > e.start

\* the body of for (const event of events) on the list of groups: the last
\* group is currentGroup
GroupStep(groupedEvents, event) ==
  IF /\ groupedEvents # <<>>
     /\ \E k \in 1..Len(groupedEvents[Len(groupedEvents)]) :
          Overlaps(event, groupedEvents[Len(groupedEvents)][k])
  THEN [groupedEvents EXCEPT ![Len(groupedEvents)] = Append(@, event)]
  ELSE Append(groupedEvents, <<event>>)

RECURSIVE GroupLoop(_, _, _)
GroupLoop(groupedEvents, evs, k) ==
  IF k > Len(evs) THEN groupedEvents
  ELSE GroupLoop(GroupStep(groupedEvents, evs[k]), evs, k + 1)

\* mutant of layDownEqualDurationEvents: the step is 1 / (group.length - 1), so
\* the last width is 0
layDownEqualDurationEventsToZero(group) ==
  [k \in 1..Len(group) |->
     [id |-> group[k].id,
      width |-> [num |-> Len(group) - 1 - (k - 1), den |-> Len(group) - 1]]]

\* let width = 1; for (event of group) { push({...event, width}); width -= 1 / group.length }
layDownEqualDurationEvents(group) ==
  [k \in 1..Len(group) |->
     [id |-> group[k].id, width |-> [num |-> Len(group) - (k - 1), den |-> Len(group)]]]

\* mutant of SweepWidth: the event is added to activeIds before its width is
\* computed
SweepWidthAfterAdd(active) ==
  IF active + 1 < 4 THEN [num |-> 4 - (active + 1), den |-> 4] ELSE [num |-> 1, den |-> 4]

\* activeIds.size < 4 ? 1 - activeIds.size * 0.25 : 0.25
SweepWidth(active) ==
  IF active < 4 THEN [num |-> 4 - active, den |-> 4] ELSE [num |-> 1, den |-> 4]

RECURSIVE StartLoop(_, _, _)
\* for (const eventId of map.start) on the sweep state [activeIds, widths]
StartLoop(st, starting, k) ==
  IF k > Len(starting) THEN st
  ELSE StartLoop([activeIds |-> st.activeIds \cup {starting[k]},
                  widths |-> [id \in DOMAIN st.widths \cup {starting[k]} |->
                                IF id = starting[k]
                                THEN SweepWidth(Cardinality(st.activeIds))
                                ELSE st.widths[id]]],
                 starting, k + 1)

\* the ids of the group that start (end) at the boundary, in the order of the
\* group
IdsAt(group, field, boundary) ==
  LET at == SelectSeq(group, LAMBDA e : e[field] = boundary)
  IN [k \in 1..Len(at) |-> at[k].id]

RECURSIVE SweepLoop(_, _, _, _)
\* for (const boundary of Array.from(boundaryMap.keys()).sort()): the ending
\* ids are cleared first, then the starting ids get their width
SweepLoop(st, group, boundaries, i) ==
  IF i > Len(boundaries) THEN st
  ELSE LET cleared == [st EXCEPT !.activeIds = @ \ Range(IdsAt(group, "end", boundaries[i]))]
       IN SweepLoop(StartLoop(cleared, IdsAt(group, "start", boundaries[i]), 1),
                    group, boundaries, i + 1)

\* the blocks of one group
GroupWidths(group) ==
  IF Len(group) = 1 THEN <<[id |-> group[1].id, width |-> [num |-> 1, den |-> 1]]>>
  ELSE IF /\ Cardinality({group[k].start : k \in 1..Len(group)}) = 1
          /\ Cardinality({group[k].end : k \in 1..Len(group)}) = 1
  THEN layDownEqualDurationEvents(group)
  ELSE LET boundaries == SortedTimes({group[k].start : k \in 1..Len(group)}
                                     \cup {group[k].end : k \in 1..Len(group)})
           swept == SweepLoop([activeIds |-> {}, widths |-> <<>>], group, boundaries, 1)
       IN [k \in 1..Len(group) |->
             [id |-> group[k].id,
              \* eventIdToWidthMap.get(e.id) || 1
              width |-> IF group[k].id \in DOMAIN swept.widths
                           /\ swept.widths[group[k].id].num # 0
                        THEN swept.widths[group[k].id]
                        ELSE [num |-> 1, den |-> 1]]]

RECURSIVE Flatten(_, _)
Flatten(seqs, k) == IF k > Len(seqs) THEN <<>> ELSE seqs[k] \o Flatten(seqs, k + 1)

\* groupEvents(events): the blocks, in the order of the groups
groupEvents(evs) ==
  LET groupedEvents == GroupLoop(<<>>, evs, 1)
  IN Flatten([g \in 1..Len(groupedEvents) |-> GroupWidths(groupedEvents[g])], 1)

\* const eventsList = groupEvents(results): the layout of the rows that the
\* query of the day returned
groupEventsCall ==
  /\ lastOp.op = "getEventsForDate"
  /\ lastOp' = [op |-> "groupEvents", input |-> lastOp.results,
                output |-> groupEvents(lastOp.results),
                \* groupedEvents after the first loop
                groups |-> GroupLoop(<<>>, lastOp.results, 1)]
  /\ UNCHANGED <<events, categories, catCache, calendars>>

(***************************************************************************)
(* Specification of the layout: groupEvents applied to any list of at most *)
(* MaxLayoutEvents timed events, in any order, over three instants.        *)
(***************************************************************************)
LayoutTimes == {WindowBase, WindowBase + TicksPerMinute, WindowBase + 2 * TicksPerMinute}

LayoutSpans == {sp \in LayoutTimes \X LayoutTimes : sp[1] <= sp[2]}

LayoutInputs ==
  UNION {
    {[k \in 1..n |-> [id |-> k, start |-> l[k][1], end |-> l[k][2]]]
       : l \in [1..n -> LayoutSpans]}
    : n \in 0..MaxLayoutEvents}

InitLayout ==
  /\ events = <<>>
  /\ categories = <<>>
  /\ catCache = NoCache
  /\ calendars = <<>>
  /\ lastOp \in {[op |-> "getEventsForDate", results |-> evs] : evs \in LayoutInputs}

NextLayout == groupEventsCall

SpecLayout == InitLayout /\ [][NextLayout]_vars

\* C19: packing width bounds.  For every input list of timed events,
\* groupEvents returns exactly one element per input event, and the width of
\* every element is greater than 0 and at most 1.
C19_WidthBounds ==
  lastOp.op = "groupEvents"
  => /\ Len(lastOp.output) = Len(lastOp.input)
     /\ \A k \in 1..Len(lastOp.input) :
          Cardinality({j \in 1..Len(lastOp.output) :
                         lastOp.output[j].id = lastOp.input[k].id}) = 1
     /\ \A j \in 1..Len(lastOp.output) :
          /\ lastOp.output[j].width.num > 0
          /\ lastOp.output[j].width.den > 0
          /\ lastOp.output[j].width.num <= lastOp.output[j].width.den

\* five events of one group: four start together and get the widths 1, 3/4,
\* 1/2 and 1/4, the fifth starts while the four are active and gets 1/4
C19_Witness ==
  /\ lastOp.op = "groupEvents"
  /\ Len(lastOp.input) = 5
  /\ \A k \in 1..4 : /\ lastOp.input[k].start = WindowBase
                     /\ lastOp.input[k].end = WindowBase + 2 * TicksPerMinute
  /\ lastOp.input[5].start = WindowBase + TicksPerMinute
  /\ lastOp.output[4].width = [num |-> 1, den |-> 4]
  /\ lastOp.output[5].width = [num |-> 1, den |-> 4]

\* the input is sorted by start ascending
SortedByStart(evs) == \A i, j \in 1..Len(evs) : i < j => evs[i].start <= evs[j].start

\* the position of the group that holds the event with this id
GroupOf(groups, id) ==
  CHOOSE g \in 1..Len(groups) : \E k \in 1..Len(groups[g]) : groups[g][k].id = id

\* C21: overlap groups are connected components.  For every input sorted by
\* start ascending, zero-length events included, two events that overlap
\* (a.start < b.end and a.end > b.start) are placed in the same group.
C21_OverlapSameGroup ==
  (lastOp.op = "groupEvents" /\ SortedByStart(lastOp.input))
  => \A i, j \in 1..Len(lastOp.input) :
       Overlaps(lastOp.input[i], lastOp.input[j])
       => GroupOf(lastOp.groups, lastOp.input[i].id) = GroupOf(lastOp.groups, lastOp.input[j].id)

\* the event x of the group is in the active set right before the event at
\* position j of the group is activated: x was activated earlier (at an
\* earlier boundary, or at the same boundary and earlier in the group) and no
\* deactivation has removed it since; the deactivation of x at x.end removes
\* it only when x was activated before, that is when x.start < x.end
ActiveBefore(group, i, j) ==
  LET x == group[i]
      y == group[j]
  IN /\ \/ x.start < y.start
        \/ x.start = y.start /\ i < j
     /\ ~(x.start < x.end /\ x.end <= y.start)

\* the width of the block with this id
WidthOf(output, id) ==
  LET k == CHOOSE k \in 1..Len(output) : output[k].id = id IN output[k].width

\* max(0.25, 1 - k * 0.25)
ClaimedWidth(k) == IF 4 - k > 1 THEN [num |-> 4 - k, den |-> 4] ELSE [num |-> 1, den |-> 4]

\* the group has two members or more that do not all share one start and one end
GeneralGroup(group) ==
  /\ Len(group) > 1
  /\ \E i, j \in 1..Len(group) :
        group[i].start # group[j].start \/ group[i].end # group[j].end

\* C22: general-group widths.  In a group that is not all-identical the width
\* of each event is max(0.25, 1 - k * 0.25), where k is the number of events
\* of the group that are active right before the event is activated in a sweep
\* of the boundaries in ascending time order that applies, at each boundary,
\* all deactivations before any activation.
C22_SweepWidths ==
  lastOp.op = "groupEvents"
  => \A g \in 1..Len(lastOp.groups) :
       LET group == lastOp.groups[g]
       IN GeneralGroup(group)
          => \A j \in 1..Len(group) :
               WidthOf(lastOp.output, group[j].id)
                 = ClaimedWidth(Cardinality({i \in 1..Len(group) : ActiveBefore(group, i, j)}))

\* a group of three: the first event ends at the boundary where the third
\* starts, so the third is activated with one event active and is 3/4 wide
C22_Witness ==
  /\ lastOp.op = "groupEvents"
  /\ Len(lastOp.groups) = 1
  /\ Len(lastOp.input) = 3
  /\ lastOp.input[1].start = WindowBase /\ lastOp.input[1].end = WindowBase + TicksPerMinute
  /\ lastOp.input[2].start = WindowBase /\ lastOp.input[2].end = WindowBase + 2 * TicksPerMinute
  /\ lastOp.input[3].start = WindowBase + TicksPerMinute
  /\ lastOp.input[3].end = WindowBase + 2 * TicksPerMinute
  /\ lastOp.output[2].width = [num |-> 3, den |-> 4]
  /\ lastOp.output[3].width = [num |-> 3, den |-> 4]

(***************************************************************************)
(* Specification of the paginated query: a store of at most MaxPageEvents  *)
(* events in any id order, some sharing a start, some all-day, some        *)
(* without a start; then either a forward scan, one page per step, each    *)
(* step passing the cursor of the step before, or one bulk fetch of the    *)
(* duration service.                                                       *)
(***************************************************************************)
\* the largest store of the scan
MaxPageEvents == 4
\* the largest page size of the scan
MaxPageSize == 2

\* getEventsPaginated(undefined, 'future', referenceDate) on a service with
\* this page size: the first page of a scan
getEventsPaginatedFirst(pageSize, referenceDate) ==
  /\ lastOp.op = "none"
  /\ \E r \in {getEventsPaginated(events, pageSize, NoCursor, "future", referenceDate)} :
       lastOp' = [op |-> "getEventsPaginated", pageSize |-> pageSize,
                  referenceDate |-> referenceDate, calls |-> 1,
                  hasMore |-> r.hasMore, nextCursor |-> r.nextCursor,
                  pages |-> r.events]
  /\ UNCHANGED <<events, categories, catCache, calendars>>

\* getEventsPaginated(nextCursor, 'future', referenceDate): the next page of
\* the scan, asked for while hasMore is true
getEventsPaginatedNext ==
  /\ lastOp.op = "getEventsPaginated"
  /\ lastOp.hasMore
  /\ \E r \in {getEventsPaginated(events, lastOp.pageSize, lastOp.nextCursor, "future",
                                   lastOp.referenceDate)} :
       lastOp' = [lastOp EXCEPT !.calls = @ + 1, !.hasMore = r.hasMore,
                                !.nextCursor = r.nextCursor,
                                !.pages = @ \o r.events]
  /\ UNCHANGED <<events, categories, catCache, calendars>>

\* EventDurationService._fetch_all_events(from, to)
fetchAllEvents(from, to) ==
  /\ lastOp.op = "none"
  /\ lastOp' = [op |-> "_fetch_all_events", from |-> from, to |-> to,
                fetched |-> _fetch_all_events(events, from, to)]
  /\ UNCHANGED <<events, categories, catCache, calendars>>

PageStarts == {NoTime, WindowBase, WindowBase + TicksPerMinute}

PageEventShapes ==
  {NewEvent(<<>>, allDay, start, IF start = NoTime THEN NoTime ELSE start + TicksPerMinute)
     : allDay \in BOOLEAN, start \in PageStarts}

PageStores == UNION {[1..n -> PageEventShapes] : n \in 1..MaxPageEvents}

PageReferences == {WindowBase - TicksPerMinute, WindowBase}

InitPage ==
  /\ events \in PageStores
  /\ categories = <<>>
  /\ catCache = NoCache
  /\ calendars = OneCalendar
  /\ lastOp = NoOp

NextPage ==
  \/ \E pageSize \in 1..MaxPageSize, referenceDate \in PageReferences :
       getEventsPaginatedFirst(pageSize, referenceDate)
  \/ getEventsPaginatedNext
  \/ \E from \in PageReferences, to \in PageStarts \ {NoTime} :
       from <= to /\ fetchAllEvents(from, to)

SpecPage == InitPage /\ [][NextPage]_vars

\* C23: pagination covers every event exactly once.  When a forward scan
\* that started without a cursor at the reference date and passed each
\* returned nextCursor to the next call has reached hasMore = false, the
\* concatenated pages hold every event with start > reference exactly once,
\* nothing else, in ascending (start, id) order, for every page size >= 1
\* and also when events share a start.
C23_PagesCoverOnce ==
  (lastOp.op = "getEventsPaginated" /\ ~lastOp.hasMore)
  => /\ \A id \in DOMAIN events :
          Cardinality({k \in 1..Len(lastOp.pages) : lastOp.pages[k] = id})
            = IF events[id].start # NoTime /\ events[id].start > lastOp.referenceDate
              THEN 1 ELSE 0
     /\ \A j, k \in 1..Len(lastOp.pages) :
          j < k => EventBefore(events, lastOp.pages[j], lastOp.pages[k])

\* a finished scan of four pages of one event each; the events of the second
\* and third page share their start
C23_Witness ==
  /\ lastOp.op = "getEventsPaginated" /\ ~lastOp.hasMore
  /\ lastOp.pageSize = 1
  /\ lastOp.calls = 4
  /\ Len(lastOp.pages) = 4
  /\ events[lastOp.pages[2]].start = events[lastOp.pages[3]].start

\* C24: bulk fetch completeness.  _fetch_all_events(from, to) returns every
\* event that is not all-day and has from < start <= to, however the all-day
\* events and the events that start after `to` are spread over the pages.
C24_FetchComplete ==
  lastOp.op = "_fetch_all_events"
  => \A id \in DOMAIN events :
       (/\ ~events[id].isAllDay
        /\ events[id].start # NoTime
        /\ lastOp.from < events[id].start
        /\ events[id].start <= lastOp.to)
       => \E k \in 1..Len(lastOp.fetched) : lastOp.fetched[k] = id

(***************************************************************************)
(* Specification of rule changes: the Work/Personal categories and events  *)
(* as a sync inserted them, then any sequence of rule updates, batch       *)
(* classifications, refreshes and recategorizations on one service         *)
(* instance.                                                               *)
(***************************************************************************)
\* const service = ...; await service.getCategories(true); await
\* service.categorizeEvents(): the cache is reloaded, then the batch runs
reApplyCategories ==
  \E list \in LoadedCategoryLists(categories) :
    \E run \in {CategorizeRun(events, [loaded |-> TRUE, list |-> list], list, FALSE, {})} :
       /\ events' = run.store
       /\ catCache' = run.cache
       /\ lastOp' = [op |-> "reApplyCategories", given |-> FALSE,
                     processed |-> run.processed, results |-> run.results,
                     stats |-> run.stats]
       /\ UNCHANGED <<categories, calendars>>

\* the rule lists an update may store
RuleLists ==
  {<<>>, <<Rule("CONTAINS", TextMeeting)>>, <<Rule("CONTAINS", TextGym)>>,
   <<Rule("STARTS_WITH", TextTeam)>>}

InitRules ==
  /\ categories = WorkPersonalSet
  /\ events \in [1..MaxCatEvents -> {NewEvent(t, FALSE, 0, TicksPerMinute)
                                        : t \in {TeamMeeting, GymSession}}]
  /\ catCache = NoCache
  /\ calendars = OneCalendar
  /\ lastOp = NoOp

NextRules ==
  \/ \E id \in DOMAIN categories, rules \in RuleLists : updateCategory(id, [rules |-> rules])
  \/ categorizeEvents(FALSE, {})
  \/ reApplyCategories
  \/ \E c \in DOMAIN categories : recategorizeEventsForCategory(c)

SpecRules == InitRules /\ [][NextRules]_vars

\* cid is the category the rule set of the table cats gives the title: a
\* matching category that no other matching category precedes, or none
CategoryByStore(cats, title, cid) ==
  LET m == MatchingCategories(cats, title)
  IN IF m = {} THEN cid = NULL
     ELSE /\ cid \in m
          /\ \A d \in m : ~CategoryBefore(cats[d], cats[cid])

\* C25: recategorization after a rule change.  When updateCategory has just
\* changed the rules of a category in the store and
\* recategorizeEventsForCategory(c) is then called on a service instance that
\* has already classified events, every event that was auto-assigned to c
\* ends with the category of the first matching rule of the rule set in the
\* store, or with no category if none matches.
C25_RecategorizeCurrentRules ==
  [][(/\ lastOp.op = "updateCategory" /\ ~lastOp.threw
      /\ catCache.loaded
      /\ lastOp'.op = "recategorizeEventsForCategory")
     => \A id \in CategoryEvents(events, lastOp'.categoryId) :
          CategoryByStore(categories, events[id].title, events'[id].categoryId)]_vars

(***************************************************************************)
(* Specification of the event store under sync: a fresh install, then any  *)
(* sequence of syncs of one calendar whose answers span one or two pages,  *)
(* cancel, title, retime and repeat events, or fail.                       *)
(***************************************************************************)
\* per remote event: a cancellation, a two-minute "Team meeting" and an
\* all-day event without a summary
StoreItems ==
  UNION {
    {RemoteEvent(id, "cancelled", <<>>, NoTimeObj, NoTimeObj),
     RemoteEvent(id, "confirmed", TeamMeeting,
                 DateTime(WindowBase), DateTime(WindowBase + 2 * TicksPerMinute)),
     RemoteEvent(id, "confirmed", <<>>,
                 [kind |-> "date", at |-> WindowBase],
                 [kind |-> "date", at |-> WindowBase + 4 * TicksPerMinute])}
    : id \in 1..MaxSyncEvents}

StoreAnswerLists ==
  {<<Threw>>}
  \cup {<<Response(<<e>>, NULL, SyncToken)>> : e \in StoreItems}
  \cup {<<Response(<<e>>, PageToken, NULL), Response(<<f>>, NULL, SyncToken)>>
          : e \in StoreItems, f \in StoreItems}
  \cup {<<Response(<<e>>, PageToken, NULL), WriteThrows(Response(<<f>>, NULL, SyncToken), 1)>>
          : e \in StoreItems, f \in StoreItems}

StoreRemotes ==
  {[listThrows |-> FALSE, calendars |-> <<RemoteCalendar(1, FALSE, a)>>]
     : a \in StoreAnswerLists}

NextStore == \E remote \in StoreRemotes : syncAllCalendarsTraced(remote)

SpecStore == InitSync /\ [][NextStore]_vars

\* the items of the answers, in page order
ReturnedItems(answers) == Flatten([k \in 1..Len(answers) |-> answers[k].items], 1)

\* the last returned item with this id decides
Deciding(items, k) == \A j \in (k + 1)..Len(items) : items[j].id # items[k].id

\* the store after the step holds what the deciding items say; title(item) is
\* the title the row of the item must carry
StoreReflects(title(_)) ==
  (/\ lastOp'.op = "syncAllCalendars"
   /\ ~AnswersThrow(lastOp'.remote.calendars[1].answers))
  => LET items == ReturnedItems(lastOp'.remote.calendars[1].answers)
     IN \A k \in 1..Len(items) :
          Deciding(items, k)
          => IF items[k].status = "cancelled"
             THEN items[k].id \notin DOMAIN events'
             ELSE /\ items[k].id \in DOMAIN events'
                  /\ events'[items[k].id].title = title(items[k])
                  /\ events'[items[k].id].start = items[k].start.at
                  /\ events'[items[k].id].end = items[k].end.at
                  /\ events'[items[k].id].isAllDay = (items[k].start.kind # "dateTime")

ItemSummary(item) == item.summary

ItemTitle(item) == IF item.summary = <<>> THEN UntitledEvent ELSE item.summary

\* C26 as stated: store reflects the remote after a calendar's event sync.
\* Once syncCalendarEvents has finished without error, every returned item
\* marked cancelled has no row in the store and every other returned item has
\* a row with that item's title, start, end and all-day flag; when an id
\* appears more than once across pages, the last occurrence decides.
C26_StoreReflectsRemote == [][StoreReflects(ItemSummary)]_vars

\* C26 as amended: the same, and the row of an item that carries no summary
\* has the title 'Untitled Event'.
C26_StoreReflectsRemoteUntitled == [][StoreReflects(ItemTitle)]_vars

\* a sync of two pages that finished: the first page carries event 1 as a
\* "Team meeting", the second carries it again without a summary and all-day;
\* the row is all-day and untitled
C26_Witness ==
  /\ lastOp.op = "syncAllCalendars" /\ ~lastOp.threw
  /\ LET answers == lastOp.remote.calendars[1].answers
     IN /\ Len(answers) = 2
        /\ ~AnswersThrow(answers)
        /\ answers[1].items[1].id = 1 /\ answers[1].items[1].summary = TeamMeeting
        /\ answers[2].items[1].id = 1 /\ answers[2].items[1].status = "confirmed"
        /\ answers[2].items[1].summary = <<>>
  /\ 1 \in DOMAIN events
  /\ events[1].title = UntitledEvent
  /\ events[1].isAllDay
  /\ events[1].start = WindowBase

(***************************************************************************)
(* Specification of the sync buttons: SyncCalendarsButton and              *)
(* CalendarSyncProvider around the sync service.  lastOp holds the state   *)
(* of the component: progress, the value the provider's callback last      *)
(* handed to setProgress (the buttons are rendered from it; a state update *)
(* made while a press is handled is committed before the next press is     *)
(* handled), and pc, the position of each execution of the provider's      *)
(* syncAllCalendars(forceResync?):                                         *)
(*   none            not running                                           *)
(*   reset_events    at await drizzle.delete(events)                       *)
(*   reset_calendars at await drizzle.delete(calendars)                    *)
(*   sync            inside the service's syncAllCalendars(), after its    *)
(*                   first updateProgress                                  *)
(* The requests and writes of the service's syncAllCalendars() are one     *)
(* step, taken when it returns or throws.                                  *)
(***************************************************************************)
\* executions of syncAllCalendars that can be in flight at once
MaxRuns == 2

Running(pc) == {r \in DOMAIN pc : pc[r] # "none"}

\* onPress of 'Sync Calendars' (handleSync) or of 'Force Re-Sync All'
\* (forceResync): both buttons are disabled unless progress.status is idle.
\* The handler runs to its first await: that of resetCalendarsAndEvents() when
\* forced, else that of calendarList.list(), after the service has reported
\* syncing_calendars
pressSync(force) ==
  /\ lastOp.op = "SyncCalendarsButton"
  /\ lastOp.progress = "idle"
  /\ \E r \in DOMAIN lastOp.pc :
       /\ lastOp.pc[r] = "none"
       /\ \A q \in DOMAIN lastOp.pc : q < r => lastOp.pc[q] # "none"
       /\ lastOp' = IF force
                    THEN [lastOp EXCEPT !.pc[r] = "reset_events"]
                    ELSE [lastOp EXCEPT !.pc[r] = "sync", !.progress = "syncing_calendars"]
  /\ UNCHANGED <<events, categories, catCache, calendars>>

\* resetCalendarsAndEvents(): await this.drizzle.delete(events)
resetEvents(r) ==
  /\ lastOp.op = "SyncCalendarsButton"
  /\ lastOp.pc[r] = "reset_events"
  /\ events' = <<>>
  /\ lastOp' = [lastOp EXCEPT !.pc[r] = "reset_calendars"]
  /\ UNCHANGED <<categories, catCache, calendars>>

\* resetCalendarsAndEvents(): await this.drizzle.delete(calendars), then the
\* service's syncAllCalendars() up to its first await.  With events in the
\* store (written by another execution) the delete either goes through or is
\* refused by the restrict foreign key of events.calendarId, and the
\* execution ends with the error
resetCalendars(r) ==
  /\ lastOp.op = "SyncCalendarsButton"
  /\ lastOp.pc[r] = "reset_calendars"
  /\ \/ /\ calendars' = <<>>
        /\ lastOp' = [lastOp EXCEPT !.pc[r] = "sync", !.progress = "syncing_calendars"]
     \/ /\ events # <<>>
        /\ calendars' = calendars
        /\ lastOp' = [lastOp EXCEPT !.pc[r] = "none"]
  /\ UNCHANGED <<events, categories, catCache>>

\* the service's syncAllCalendars() from calendarList.list() to its end: the
\* last progress it reports is idle, whether it returns or throws
syncReturns(r, remote) ==
  /\ lastOp.op = "SyncCalendarsButton"
  /\ lastOp.pc[r] = "sync"
  /\ \A i \in 1..Len(remote.calendars) : WellFormedAnswers(remote.calendars[i].answers)
  /\ \E list \in LoadedCategoryLists(categories) :
      \E run \in {SyncAllCalendarsRun(events, calendars, catCache, list, remote)} :
        /\ events' = run.store
        /\ calendars' = run.calendars
        /\ catCache' = run.cache
        /\ lastOp' = [lastOp EXCEPT !.pc[r] = "none",
                                    !.progress = run.log[Len(run.log)].status]
  /\ UNCHANGED categories

GuardRemotes == {[listThrows |-> TRUE, calendars |-> <<>>]} \cup ForcedRemotes

InitGuard ==
  /\ events = <<>>
  /\ categories = WorkPersonalSet
  /\ catCache = NoCache
  /\ calendars = <<>>
  /\ lastOp = [op |-> "SyncCalendarsButton", progress |-> "idle",
               pc |-> [r \in 1..MaxRuns |-> "none"]]

NextGuard ==
  \/ \E force \in BOOLEAN : pressSync(force)
  \/ \E r \in 1..MaxRuns : resetEvents(r)
  \/ \E r \in 1..MaxRuns : resetCalendars(r)
  \/ \E r \in 1..MaxRuns, remote \in GuardRemotes : syncReturns(r, remote)

SpecGuard == InitGuard /\ [][NextGuard]_vars

\* C27: single in-flight sync.  With both sync buttons disabled while
\* progress.status is not idle, at most one execution of syncAllCalendars /
\* resetCalendarsAndEvents is in flight at any time.
C27_SingleInFlight ==
  lastOp.op = "SyncCalendarsButton" => Cardinality(Running(lastOp.pc)) <= 1

(***************************************************************************)
(* Specification of a batch classification with the awaits of its loop as  *)
(* steps: categorizeEvents() or recategorizeEventsForCategory(c) reads its *)
(* rows, then classifies one row snapshot per step; manuallyAssignCategory *)
(* runs between any two steps.  lastOp holds the batch: pc (idle, clear,   *)
(* loop, returned), the row snapshots, the ids still to process, and the   *)
(* manual assignments of a category that completed since the rows were     *)
(* read.                                                                   *)
(***************************************************************************)
RECURSIVE AscendingIds(_)
\* the ids of the set as a sequence, ascending
AscendingIds(S) ==
  IF S = {} THEN <<>>
  ELSE LET m == CHOOSE x \in S : \A y \in S : x <= y IN <<m>> \o AscendingIds(S \ {m})

NoBatch ==
  [op |-> "batch", pc |-> "idle", kind |-> "none", snapshot |-> <<>>, todo |-> <<>>,
   assigned |-> <<>>]

\* categorizeEvents(): eventsToProcess = await select ... where
\* isManuallyCategorized is false or null
batchReadAll ==
  /\ lastOp.op = "batch" /\ lastOp.pc \in {"idle", "returned"}
  /\ LET ids == EventsToProcess(events, FALSE, {})
     IN lastOp' = [op |-> "batch", pc |-> "loop", kind |-> "categorizeEvents",
                   snapshot |-> [id \in ids |-> events[id]], todo |-> AscendingIds(ids),
                   assigned |-> <<>>]
  /\ UNCHANGED <<events, categories, catCache, calendars>>

\* recategorizeEventsForCategory(categoryId): categoryEvents = await select ...
batchReadCategory(categoryId) ==
  /\ lastOp.op = "batch" /\ lastOp.pc \in {"idle", "returned"}
  /\ LET ids == CategoryEvents(events, categoryId)
     IN lastOp' = [op |-> "batch", pc |-> "clear", kind |-> "recategorizeEventsForCategory",
                   \* updatedEvent = { ...event, categoryId: null, isManuallyCategorized: null }
                   snapshot |-> [id \in ids |->
                                   [events[id] EXCEPT !.categoryId = NULL,
                                                      !.isManuallyCategorized = NULL]],
                   todo |-> AscendingIds(ids), assigned |-> <<>>]
  /\ UNCHANGED <<events, categories, catCache, calendars>>

\* recategorizeEventsForCategory: await update(events).set({categoryId: null,
\* isManuallyCategorized: null}).where(inArray(events.id, ids))
batchClear ==
  /\ lastOp.op = "batch" /\ lastOp.pc = "clear"
  /\ events' = [id \in DOMAIN events |->
                  IF id \in DOMAIN lastOp.snapshot
                  THEN [events[id] EXCEPT !.categoryId = NULL, !.isManuallyCategorized = NULL]
                  ELSE events[id]]
  /\ lastOp' = [lastOp EXCEPT !.pc = "loop"]
  /\ UNCHANGED <<categories, catCache, calendars>>

\* one pass of for (const event of ...): await this.categorizeEvent(event) on
\* the row as it was read
batchStep ==
  /\ lastOp.op = "batch" /\ lastOp.pc = "loop" /\ lastOp.todo # <<>>
  /\ \E list \in LoadedCategoryLists(categories) :
       LET id == Head(lastOp.todo)
           event == lastOp.snapshot[id]
           cats == IF catCache.loaded THEN catCache.list ELSE list
           out == categorizeEvent(event, cats)
       IN /\ events' = IF out.write /\ id \in DOMAIN events
                        THEN [events EXCEPT ![id].categoryId = out.categoryId,
                                            ![id].isManuallyCategorized = out.isManuallyCategorized]
                        ELSE events
          /\ catCache' = IF ~catCache.loaded /\ event.isManuallyCategorized # "true"
                         THEN [loaded |-> TRUE, list |-> list] ELSE catCache
  /\ lastOp' = [lastOp EXCEPT !.todo = Tail(@)]
  /\ UNCHANGED <<categories, calendars>>

\* the batch returns
batchReturn ==
  /\ lastOp.op = "batch" /\ lastOp.pc = "loop" /\ lastOp.todo = <<>>
  /\ lastOp' = [lastOp EXCEPT !.pc = "returned"]
  /\ UNCHANGED <<events, categories, catCache, calendars>>

\* manuallyAssignCategory(eventId, categoryId | null), at any point of a batch
\* or outside one
manuallyAssignCategoryDuring(eventId, categoryId) ==
  /\ lastOp.op = "batch"
  /\ eventId \in DOMAIN events
  /\ events' = [events EXCEPT ![eventId].categoryId = categoryId,
                              ![eventId].isManuallyCategorized =
                                 IF categoryId # NULL THEN "true" ELSE "false"]
  /\ lastOp' = IF lastOp.pc \in {"clear", "loop"}
               THEN [lastOp EXCEPT !.assigned =
                       [e \in (DOMAIN @ \cup {eventId}) \ (IF categoryId = NULL THEN {eventId} ELSE {})
                          |-> IF e = eventId THEN categoryId ELSE @[e]]]
               ELSE NoBatch
  /\ UNCHANGED <<categories, catCache, calendars>>

InitBatch ==
  /\ categories = WorkPersonalSet
  /\ events \in [1..MaxCatEvents -> {NewEvent(t, FALSE, 0, TicksPerMinute)
                                        : t \in {TeamMeeting, Lunch}}]
  /\ catCache = NoCache
  /\ calendars = OneCalendar
  /\ lastOp = NoBatch

NextBatch ==
  \/ batchReadAll
  \/ \E c \in DOMAIN categories : batchReadCategory(c)
  \/ batchClear
  \/ batchStep
  \/ batchReturn
  \/ \E id \in DOMAIN events, c \in DOMAIN categories \cup {NULL} :
       manuallyAssignCategoryDuring(id, c)

SpecBatch == InitBatch /\ [][NextBatch]_vars

\* C28: a manual assignment made while a batch classification is running
\* survives it.  When categorizeEvents or recategorizeEventsForCategory
\* returns, every event that manuallyAssignCategory gave a category since the
\* batch read its rows still has that category and isManuallyCategorized =
\* true.
C28_ManualSurvivesBatch ==
  (lastOp.op = "batch" /\ lastOp.pc = "returned")
  => \A e \in DOMAIN lastOp.assigned :
       /\ events[e].categoryId = lastOp.assigned[e]
       /\ events[e].isManuallyCategorized = "true"

(***************************************************************************)
(* Specification of categories that go away: the Work/Personal categories  *)
(* and events as a sync inserted them, then any sequence of manual         *)
(* assignments, reapplied classifications, category deletions and category *)
(* imports.  An import carries flat categories (no children).              *)
(***************************************************************************)
\* the categories arrays of the import files
ImportData ==
  {<<>>,
   <<[name |-> NameWork, color |-> "#000000", priority |-> 10,
      rules |-> <<Rule("CONTAINS", TextMeeting)>>]>>}

\* importFromJsonString(jsonString) on valid data: clearExistingCategories()
\* sets the categoryId of every event to null and deletes every category,
\* then createCategory inserts each imported category under a fresh id
importFromJsonString(categoriesData) ==
  \E ids \in [1..Len(categoriesData) -> CategoryIds \ DOMAIN categories] :
    /\ \A i, j \in 1..Len(categoriesData) : i # j => ids[i] # ids[j]
    /\ events' = [e \in DOMAIN events |-> [events[e] EXCEPT !.categoryId = NULL]]
    /\ categories' = [c \in Range(ids) |->
                        LET k == CHOOSE k \in 1..Len(categoriesData) : ids[k] = c
                        IN [name |-> categoriesData[k].name, color |-> categoriesData[k].color,
                            priority |-> categoriesData[k].priority,
                            rules |-> categoriesData[k].rules,
                            parentCategoryId |-> NULL]]
    /\ lastOp' = [op |-> "importFromJsonString", importedCount |-> Len(categoriesData),
                  success |-> Len(categoriesData) > 0]
    /\ UNCHANGED <<catCache, calendars>>

InitOrphan ==
  /\ categories = WorkPersonalSet
  /\ events \in [1..MaxCatEvents -> {NewEvent(t, FALSE, 0, TicksPerMinute)
                                        : t \in {TeamMeeting, GymSession}}]
  /\ catCache = NoCache
  /\ calendars = OneCalendar
  /\ lastOp = NoOp

NextOrphan ==
  \/ \E id \in DOMAIN events, c \in DOMAIN categories \cup {NULL} : manuallyAssignCategory(id, c)
  \/ reApplyCategories
  \/ \E c \in DOMAIN categories : deleteCategory(c)
  \/ \E data \in ImportData : importFromJsonString(data)

SpecOrphan == InitOrphan /\ [][NextOrphan]_vars

\* C29: manual flag implies a category.  In every reachable store state an
\* event with isManuallyCategorized = true has a non-null categoryId.
C29_ManualHasCategory ==
  \A e \in DOMAIN events :
    events[e].isManuallyCategorized = "true" => events[e].categoryId # NULL

\* C30: moving to the root.  For a category A that has a parent, a step of
\* moveCategory(A, null) leaves A with parentCategoryId = null and changes no
\* other field of any category.
C30_MoveToRoot ==
  [][(/\ lastOp'.op = "moveCategory"
      /\ lastOp'.newParentId = NULL
      /\ lastOp'.categoryId \in DOMAIN categories
      /\ categories[lastOp'.categoryId].parentCategoryId # NULL)
     => categories' = [categories EXCEPT ![lastOp'.categoryId].parentCategoryId = NULL]]_vars

====
